---- MODULE Spec2Model ----
(***************************************************************************)
(* Writer-memory store: the persistence layer (memory-manager), the scene  *)
(* manager, the character tracker and the relationship graph.              *)
(*                                                                         *)
(* Arrays are 1-based sequences; the `order` fields and the index          *)
(* arguments keep the code's 0-based values.  Timestamps are integers      *)
(* (milliseconds); an ISO-8601 string of fixed width sorts as its number.  *)
(* generateId is modelled as the choice of an identifier no stored entity  *)
(* of that kind carries.                                                    *)
(***************************************************************************)
EXTENDS Integers, Sequences, FiniteSets, TLC

VARIABLES
  disk,     \* .writer-memory/: directories, memory.json, memory.json.tmp, backups/
  clock,    \* Date.now() in milliseconds
  nsaves,   \* saveMemory calls made so far
  nsame,    \* saveMemory calls made in the same millisecond as the one before
  op,       \* the last public operation called, with its arguments
  ret,      \* what it returned
  lastSaves,\* the number of saveMemory calls it made
  proc      \* a saveMemory call in progress, statement by statement

vars == <<disk, clock, nsaves, nsame, op, ret, lastSaves, proc>>

----------------------------------------------------------------------------
\* Bounds of the model

MaxOps == 5        \* saveMemory calls in a run of the entity subsystems
MaxSaves == 22     \* saveMemory calls in a run of the backup-retention model
MaxSameMs == 1     \* of which that many may share a millisecond with the previous one
MaxScenes == 2
MaxCuts == 3
MaxTicks == 3      \* clock ticks in the statement-level model of saveMemory
MaxDocSaves == 3   \* saveMemory calls in a run that saves whole documents
MaxCutOps == 6     \* saveMemory calls in a run that adds and removes cuts
MaxLostSaves == 1  \* saveMemory calls in a run whose store is deleted or corrupted
MaxLifeOps == 4    \* saveMemory calls in a run of the six character mutations
MaxMatches == 3    \* sentences of a line that match one family of endings

\* Program constant
MAX_BACKUPS == 20

SceneIds == {"s1", "s2", "s3"}
UnknownId == "s0"
Titles == {"t1"}
EmotionTags == {"e1", "e2"}
CutContents == {"k1", "k2"}
Names == {"A", "B"}
CharIds == {"char1", "char2"}
RelIds == {"rel1", "rel2", "rel3"}
Aliases == {"x", "y"}
Procs == {1, 2}

----------------------------------------------------------------------------
\* JavaScript values and array helpers

Null == [null |-> TRUE]
Undefined == "undefined"               \* an optional field that is not set
UndefinedRecord == [undefined |-> TRUE]  \* undefined, where a record may stand
Thrown == [thrown |-> TRUE]

Range(s) == {s[i] : i \in DOMAIN s}

SeqsUpTo(S, n) == UNION {[1..k -> S] : k \in 0..n}

\* Array.prototype.findIndex, 1-based; 0 stands for the code's -1
FindIndex(s, P(_)) ==
  IF \E i \in DOMAIN s : P(s[i])
  THEN CHOOSE i \in DOMAIN s : P(s[i]) /\ \A j \in 1..(i - 1) : ~P(s[j])
  ELSE 0

\* the last index holding x (0 when none)
LastIndexOf(s, x) ==
  IF \E i \in DOMAIN s : s[i] = x
  THEN CHOOSE i \in DOMAIN s : s[i] = x /\ \A j \in (i + 1)..Len(s) : s[j] # x
  ELSE 0

\* Array.prototype.splice(i, 1) at the 1-based index i
Splice(s, i) == [j \in 1..(Len(s) - 1) |-> IF j < i THEN s[j] ELSE s[j + 1]]

\* the concatenation of F(s[1]), ..., F(s[n])
FlatMap(s, F(_)) ==
  LET f[i \in 0..Len(s)] == IF i = 0 THEN <<>> ELSE f[i - 1] \o F(s[i])
  IN f[Len(s)]

When(cond, message) == IF cond THEN <<message>> ELSE <<>>

\* arr.forEach((x, idx) => { x.order = idx }) over distinct objects
Renumber(s) == [i \in DOMAIN s |-> [s[i] EXCEPT !.order = i - 1]]

----------------------------------------------------------------------------
\* Files

NoFile == [st |-> "absent"]
Torn == [st |-> "partial"]       \* a prefix of a JSON text: not parsable
Garbage == [st |-> "corrupt"]    \* a file that is not JSON

\* a parsed document without this key: reading it gives undefined, and reading a
\* property of that throws a TypeError
Lacks(memory, k) == k \notin DOMAIN memory

\* obj.k read from a JavaScript object: undefined when the object has no such key
Get(obj, k) == IF k \in DOMAIN obj THEN obj[k] ELSE Undefined

\* JSON.stringify of an object leaves out the keys whose value is undefined; `optional`
\* names the keys of obj that may be
WithoutUndefined(obj, optional) ==
  [k \in {x \in DOMAIN obj : x \notin optional \/ obj[x] # Undefined} |-> obj[k]]

jsonCut(cut) == WithoutUndefined(cut, {"character", "emotionTag"})

jsonScene(scene) ==
  WithoutUndefined([scene EXCEPT !.cuts = [i \in DOMAIN @ |-> jsonCut(@[i])]], {"chapter"})

jsonEvent(event) == WithoutUndefined(event, {"sceneId"})

jsonRelationship(rel) ==
  WithoutUndefined([rel EXCEPT !.evolution = [i \in DOMAIN @ |-> jsonEvent(@[i])]],
                   {"speechLevel", "notes"})

jsonCharacter(char) ==
  [char EXCEPT !.timeline = [i \in DOMAIN @ |-> WithoutUndefined(@[i], {"sceneId"})]]

\* the document JSON.parse gives back for the text JSON.stringify(memory, null, 2)
jsonDocument(memory) ==
  [k \in DOMAIN memory |->
     CASE k = "characters" ->
            [i \in DOMAIN memory[k] |-> [memory[k][i] EXCEPT !.val = jsonCharacter(@)]]
       [] k = "relationships" -> [i \in DOMAIN memory[k] |-> jsonRelationship(memory[k][i])]
       [] k = "scenes" -> [i \in DOMAIN memory[k] |-> jsonScene(memory[k][i])]
       [] OTHER -> memory[k]]

\* JSON.stringify(memory, null, 2): the file holds the text of jsonDocument(memory)
JSONstringify(memory) == [st |-> "json", doc |-> jsonDocument(memory)]

\* readFileSync + JSON.parse: Thrown when the text is no JSON document
JSONparse(file) == IF file.st = "json" THEN file.doc ELSE Thrown

EmptyDisk ==
  [memDir |-> FALSE, backDir |-> FALSE, file |-> NoFile, tmp |-> NoFile, backups |-> {}]

Faults == {"none", "mkdir", "mkdirBackup", "writeBackup", "unlink", "writeTmp", "rename"}
NoFaults == {"none"}

loadMemory(d) ==
  IF d.file.st = "absent" THEN Null
  ELSE IF JSONparse(d.file) = Thrown THEN Null
  ELSE JSONparse(d.file)

\* keep the MAX_BACKUPS last names in lexicographic order; an unlink that throws ends
\* the pruning, silently
pruneBackups(files, f) ==
  IF Cardinality(files) <= MAX_BACKUPS \/ f = "unlink" THEN files
  ELSE {b \in files : Cardinality({c \in files : c.ts > b.ts}) < MAX_BACKUPS}

\* backups/memory-<ts>.json is written (replacing a file of that name), then pruned
createBackup(d, memory, t, f) ==
  IF ~d.backDir /\ f = "mkdirBackup" THEN d
  ELSE IF f = "writeBackup" THEN [d EXCEPT !.backDir = TRUE]
  ELSE LET written == {b \in d.backups : b.ts # t}
                        \cup {[ts |-> t, json |-> JSONstringify(memory)]}
       IN [d EXCEPT !.backDir = TRUE, !.backups = pruneBackups(written, f)]

\* saveMemory, statement by statement.  Each stage yields [d, ok]; ok = FALSE is the
\* catch block (return false).

\* if (!existsSync(memDir)) mkdirSync(memDir)
saveEnsureDir(d, f) ==
  IF d.memDir THEN [d |-> d, ok |-> TRUE]
  ELSE IF f = "mkdir" THEN [d |-> d, ok |-> FALSE]
  ELSE [d |-> [d EXCEPT !.memDir = TRUE], ok |-> TRUE]

saveBackupAlways(d, t, f) ==
  IF d.file.st = "absent" \/ JSONparse(d.file) = Thrown
  THEN createBackup(d, [version |-> "1.0"], t, f)
  ELSE createBackup(d, JSONparse(d.file), t, f)

\* if (existsSync(memPath)) try { createBackup(JSON.parse(read)) } catch {}
saveBackupExisting(d, t, f) ==
  IF d.file.st = "absent" \/ JSONparse(d.file) = Thrown THEN d
  ELSE createBackup(d, JSONparse(d.file), t, f)

saveStampCreated(memory, t) ==
  [memory EXCEPT !.project.updated = t, !.project.created = t]

\* memory.project.updated = now()
saveStamp(memory, t) == [memory EXCEPT !.project.updated = t]

saveWriteTargetInPlace == "file"

\* the path writeFileSync(tmpPath, json) writes
saveWriteTarget == "tmp"

\* writeFileSync opens and truncates its target, then writes the text
saveOpen(d) ==
  IF saveWriteTarget = "tmp" THEN [d EXCEPT !.tmp = Torn] ELSE [d EXCEPT !.file = Torn]

saveWrite(d, memory, f) ==
  IF f = "writeTmp" THEN [d |-> saveOpen(d), ok |-> FALSE]
  ELSE IF saveWriteTarget = "tmp"
       THEN [d |-> [d EXCEPT !.tmp = JSONstringify(memory)], ok |-> TRUE]
       ELSE [d |-> [d EXCEPT !.file = JSONstringify(memory)], ok |-> TRUE]

saveRenameUnlinkFirst(d, f) ==
  IF f = "rename" \/ d.tmp.st = "absent" THEN [d |-> [d EXCEPT !.file = NoFile], ok |-> FALSE]
  ELSE [d |-> [d EXCEPT !.file = d.tmp, !.tmp = NoFile], ok |-> TRUE]

\* renameSync(tmpPath, memPath)
saveRename(d, f) ==
  IF f = "rename" \/ d.tmp.st = "absent" THEN [d |-> d, ok |-> FALSE]
  ELSE [d |-> [d EXCEPT !.file = d.tmp, !.tmp = NoFile], ok |-> TRUE]

saveMemoryBackupAfter(d, memory, t, f) ==
  LET s1 == saveEnsureDir(d, f) IN
  IF ~s1.ok THEN s1 ELSE
  LET s3 == saveWrite(s1.d, saveStamp(memory, t), f) IN
  IF ~s3.ok THEN s3 ELSE
  LET s4 == saveRename(s3.d, f) IN
  IF ~s4.ok THEN s4 ELSE [d |-> saveBackupExisting(s4.d, t, f), ok |-> TRUE]

\* saveMemory, were the backup made in saveMemory's own try block with nothing
\* caught on the way
saveMemoryBackupFatal(d, memory, t, f) ==
  LET s1 == saveEnsureDir(d, f) IN
  IF ~s1.ok THEN s1 ELSE
  IF /\ s1.d.file.st # "absent"
     /\ \/ JSONparse(s1.d.file) = Thrown
        \/ f = "writeBackup"
        \/ (f = "mkdirBackup" /\ ~s1.d.backDir)
        \/ (f = "unlink" /\ Cardinality(s1.d.backups \cup {[ts |-> t]}) > MAX_BACKUPS)
  THEN [d |-> s1.d, ok |-> FALSE] ELSE
  LET d2 == saveBackupExisting(s1.d, t, f)
      s3 == saveWrite(d2, saveStamp(memory, t), f) IN
  IF ~s3.ok THEN s3 ELSE saveRename(s3.d, f)

\* saveMemory run to completion at time t.  [d, ok]
saveMemory(d, memory, t, f) ==
  LET s1 == saveEnsureDir(d, f) IN
  IF ~s1.ok THEN s1 ELSE
  LET d2 == saveBackupExisting(s1.d, t, f)
      s3 == saveWrite(d2, saveStamp(memory, t), f) IN
  IF ~s3.ok THEN s3 ELSE saveRename(s3.d, f)

\* the result of a public operation: the disk after it, what it returned, and the
\* number of saveMemory calls it made
NoSave(d, r) == [disk |-> d, ret |-> r, saves |-> 0]
Saved(d, memory, t, f, r) == [disk |-> saveMemory(d, memory, t, f).d, ret |-> r, saves |-> 1]

\* saveMemory(memory) called by the user of the module
saveMemoryCall(d, memory, t, f) ==
  [disk |-> saveMemory(d, memory, t, f).d, ret |-> saveMemory(d, memory, t, f).ok,
   saves |-> 1]

EmptyWorld ==
  [name |-> "", era |-> "", atmosphere |-> "", rules |-> <<>>, locations |-> <<>>,
   culturalNotes |-> <<>>, notes |-> ""]

EmptySynopsis ==
  [protagonistAttitude |-> "", coreRelationships |-> "", emotionalTheme |-> "",
   genreVsRealEmotion |-> "", endingAftertaste |-> ""]

NewMemory(projectName, genre, t) ==
  [version |-> "1.0",
   project |-> [name |-> projectName, genre |-> genre, created |-> t, updated |-> t],
   characters |-> <<>>,
   world |-> EmptyWorld,
   relationships |-> <<>>,
   scenes |-> <<>>,
   themes |-> <<>>,
   synopsis |-> EmptySynopsis]

\* initMemory: the directories are made outside any try block
initMemory(d, projectName, genre, t, f) ==
  IF ~d.memDir /\ f = "mkdir" THEN NoSave(d, Thrown)
  ELSE IF ~d.backDir /\ f = "mkdirBackup" THEN NoSave([d EXCEPT !.memDir = TRUE], Thrown)
  ELSE LET memory == NewMemory(projectName, genre, t)
       IN Saved([d EXCEPT !.memDir = TRUE, !.backDir = TRUE], memory, t, f,
                saveStamp(memory, t))

----------------------------------------------------------------------------
\* Scene manager

findSceneById(memory, id) == FindIndex(memory.scenes, LAMBDA s : s.id = id)

\* ids generateId may return for a new scene
FreshSceneIds(d) ==
  LET memory == loadMemory(d)
      used == IF memory = Null \/ Lacks(memory, "scenes") THEN {}
              ELSE {s.id : s \in Range(memory.scenes)}
      free == SceneIds \ used
  IN IF free = {} THEN {} ELSE {CHOOSE i \in free : TRUE}

\* addScene(title, options); id is the value generateId returns
addScene(d, id, title, options, t, f) ==
  LET memory == loadMemory(d) IN
  IF memory = Null \/ Lacks(memory, "scenes") THEN NoSave(d, Null)
  ELSE LET newScene ==
             [id |-> id, title |-> title, chapter |-> options.chapter,
              characters |-> options.characters, emotionTags |-> options.emotionTags,
              cuts |-> <<>>, narrationTone |-> "", notes |-> "",
              order |-> Len(memory.scenes), created |-> t]
       IN Saved(d, [memory EXCEPT !.scenes = Append(@, newScene)], t, f, newScene)

\* removeScene(sceneId), were the remaining scenes left with their orders
removeSceneNoRenumber(d, sceneId, t, f) ==
  LET memory == loadMemory(d) IN
  IF memory = Null THEN NoSave(d, FALSE)
  ELSE LET index == findSceneById(memory, sceneId) IN
       IF index = 0 THEN NoSave(d, FALSE)
       ELSE Saved(d, [memory EXCEPT !.scenes = Splice(@, index)], t, f, TRUE)

\* removeScene(sceneId)
removeScene(d, sceneId, t, f) ==
  LET memory == loadMemory(d) IN
  IF memory = Null THEN NoSave(d, FALSE)
  ELSE LET index == findSceneById(memory, sceneId) IN
       IF index = 0 THEN NoSave(d, FALSE)
       ELSE Saved(d, [memory EXCEPT !.scenes = Renumber(Splice(@, index))], t, f, TRUE)

\* new Map(scenes.map(s => [s.id, s])).get(id): the last scene carrying the id
sceneMapGet(scenes, id) ==
  scenes[CHOOSE i \in DOMAIN scenes :
           scenes[i].id = id /\ \A j \in (i + 1)..Len(scenes) : scenes[j].id # id]

\* reorderScenes(sceneIds).  The scenes array holds, at each position, the object the
\* map gives for that id, so an id given twice puts ONE object at both positions and
\* the forEach leaves in it the last index at which it stands.
reorderScenes(d, sceneIds, t, f) ==
  LET memory == loadMemory(d) IN
  IF memory = Null THEN NoSave(d, FALSE)
  ELSE IF Len(sceneIds) # Len(memory.scenes) THEN NoSave(d, FALSE)
  ELSE IF \E i \in DOMAIN sceneIds : \A s \in Range(memory.scenes) : s.id # sceneIds[i]
       THEN NoSave(d, FALSE)
  ELSE LET reordered ==
             [i \in DOMAIN sceneIds |->
                [sceneMapGet(memory.scenes, sceneIds[i])
                   EXCEPT !.order = LastIndexOf(sceneIds, sceneIds[i]) - 1]]
       IN Saved(d, [memory EXCEPT !.scenes = reordered], t, f, TRUE)

\* addCut(sceneId, cut)
addCut(d, sceneId, cut, t, f) ==
  LET memory == loadMemory(d) IN
  IF memory = Null THEN NoSave(d, FALSE)
  ELSE LET si == findSceneById(memory, sceneId) IN
       IF si = 0 THEN NoSave(d, FALSE)
       ELSE LET newCut == [order |-> Len(memory.scenes[si].cuts), type |-> cut.type,
                           content |-> cut.content, character |-> cut.character,
                           emotionTag |-> cut.emotionTag]
            IN Saved(d, [memory EXCEPT !.scenes[si].cuts = Append(@, newCut)], t, f, TRUE)

removeCutNoRenumber(d, sceneId, cutOrder, t, f) ==
  LET memory == loadMemory(d) IN
  IF memory = Null THEN NoSave(d, FALSE)
  ELSE LET si == findSceneById(memory, sceneId) IN
       IF si = 0 THEN NoSave(d, FALSE)
       ELSE LET index == FindIndex(memory.scenes[si].cuts, LAMBDA c : c.order = cutOrder) IN
            IF index = 0 THEN NoSave(d, FALSE)
            ELSE Saved(d, [memory EXCEPT !.scenes[si].cuts = Splice(@, index)], t, f, TRUE)

removeCutLast(d, sceneId, cutOrder, t, f) ==
  LET memory == loadMemory(d) IN
  IF memory = Null THEN NoSave(d, FALSE)
  ELSE LET si == findSceneById(memory, sceneId) IN
       IF si = 0 THEN NoSave(d, FALSE)
       ELSE LET index == FindIndex(memory.scenes[si].cuts, LAMBDA c : c.order = cutOrder) IN
            IF index = 0 THEN NoSave(d, FALSE)
            ELSE Saved(d, [memory EXCEPT !.scenes[si].cuts = Renumber(Splice(@, Len(@)))],
                       t, f, TRUE)

\* removeCut(sceneId, cutOrder)
removeCut(d, sceneId, cutOrder, t, f) ==
  LET memory == loadMemory(d) IN
  IF memory = Null THEN NoSave(d, FALSE)
  ELSE LET si == findSceneById(memory, sceneId) IN
       IF si = 0 THEN NoSave(d, FALSE)
       ELSE LET index == FindIndex(memory.scenes[si].cuts, LAMBDA c : c.order = cutOrder) IN
            IF index = 0 THEN NoSave(d, FALSE)
            ELSE Saved(d, [memory EXCEPT !.scenes[si].cuts = Renumber(Splice(@, index))],
                       t, f, TRUE)

\* [...newOrder].sort((a, b) => a - b)
sortedOrder(newOrder) == SortSeq(newOrder, LAMBDA a, b : a < b)

\* reorderCuts(sceneId, newOrder), were newOrder read as the new position of each cut
reorderCutsInverse(d, sceneId, newOrder, t, f) ==
  LET memory == loadMemory(d) IN
  IF memory = Null THEN NoSave(d, FALSE)
  ELSE LET si == findSceneById(memory, sceneId) IN
       IF si = 0 THEN NoSave(d, FALSE)
       ELSE LET cuts == memory.scenes[si].cuts IN
            IF Len(newOrder) # Len(cuts) THEN NoSave(d, FALSE)
            ELSE IF \E i \in DOMAIN newOrder : sortedOrder(newOrder)[i] # i - 1
                 THEN NoSave(d, FALSE)
            ELSE LET reorderedCuts ==
                       [i \in DOMAIN newOrder |->
                          [cuts[CHOOSE j \in DOMAIN newOrder : newOrder[j] = i - 1]
                             EXCEPT !.order = i - 1]]
                 IN Saved(d, [memory EXCEPT !.scenes[si].cuts = reorderedCuts], t, f, TRUE)

\* reorderCuts(sceneId, newOrder)
reorderCuts(d, sceneId, newOrder, t, f) ==
  LET memory == loadMemory(d) IN
  IF memory = Null THEN NoSave(d, FALSE)
  ELSE LET si == findSceneById(memory, sceneId) IN
       IF si = 0 THEN NoSave(d, FALSE)
       ELSE LET cuts == memory.scenes[si].cuts IN
            IF Len(newOrder) # Len(cuts) THEN NoSave(d, FALSE)
            ELSE IF \E i \in DOMAIN newOrder : sortedOrder(newOrder)[i] # i - 1
                 THEN NoSave(d, FALSE)
            ELSE LET reorderedCuts ==
                       [i \in DOMAIN newOrder |->
                          [cuts[newOrder[i] + 1] EXCEPT !.order = i - 1]]
                 IN Saved(d, [memory EXCEPT !.scenes[si].cuts = reorderedCuts], t, f, TRUE)

addEmotionTagAlways(d, sceneId, tag, t, f) ==
  LET memory == loadMemory(d) IN
  IF memory = Null THEN NoSave(d, FALSE)
  ELSE LET si == findSceneById(memory, sceneId) IN
       IF si = 0 THEN NoSave(d, FALSE)
       ELSE Saved(d, [memory EXCEPT !.scenes[si].emotionTags = Append(@, tag)], t, f, TRUE)

\* addEmotionTag(sceneId, tag)
addEmotionTag(d, sceneId, tag, t, f) ==
  LET memory == loadMemory(d) IN
  IF memory = Null THEN NoSave(d, FALSE)
  ELSE LET si == findSceneById(memory, sceneId) IN
       IF si = 0 THEN NoSave(d, FALSE)
       ELSE IF tag \in Range(memory.scenes[si].emotionTags) THEN NoSave(d, TRUE)
       ELSE Saved(d, [memory EXCEPT !.scenes[si].emotionTags = Append(@, tag)], t, f, TRUE)

\* removeEmotionTag(sceneId, tag)
removeEmotionTag(d, sceneId, tag, t, f) ==
  LET memory == loadMemory(d) IN
  IF memory = Null THEN NoSave(d, FALSE)
  ELSE LET si == findSceneById(memory, sceneId) IN
       IF si = 0 THEN NoSave(d, FALSE)
       ELSE LET index == FindIndex(memory.scenes[si].emotionTags, LAMBDA x : x = tag) IN
            IF index = 0 THEN NoSave(d, TRUE)
            ELSE Saved(d, [memory EXCEPT !.scenes[si].emotionTags = Splice(@, index)],
                       t, f, TRUE)

----------------------------------------------------------------------------
\* Character tracker.  memory.characters is an object keyed by name; its entries are
\* kept in insertion order (the order Object.values gives) as <<[key, val]>>.

charIndex(memory, key) == FindIndex(memory.characters, LAMBDA e : e.key = key)

\* addCharacter after its loadMemory(), were the document read again when it is saved
addCharacterReloading(d, memory, id, name, options, t, f) ==
  LET fresh == loadMemory(d) IN
  IF fresh = Null THEN NoSave(d, Null)
  ELSE IF Lacks(fresh, "characters") THEN NoSave(d, Thrown)
  ELSE IF charIndex(fresh, name) # 0 THEN NoSave(d, Null)
  ELSE LET character ==
             [id |-> id, name |-> name, aliases |-> <<>>, arc |-> options.arc,
              tone |-> "", speechLevel |-> "banmal", attitude |-> "", keywords |-> <<>>,
              timeline |-> <<>>, notes |-> "", created |-> t, updated |-> t]
       IN Saved(d, [fresh EXCEPT !.characters = Append(@, [key |-> name, val |-> character])],
                t, f, character)

\* addCharacter after its loadMemory() returned memory: d is the disk when it saves
addCharacterLoaded(d, memory, id, name, options, t, f) ==
  IF memory = Null THEN NoSave(d, Null)
  ELSE IF Lacks(memory, "characters") THEN NoSave(d, Thrown)
  ELSE IF charIndex(memory, name) # 0 THEN NoSave(d, Null)
  ELSE LET character ==
             [id |-> id, name |-> name, aliases |-> <<>>, arc |-> options.arc,
              tone |-> "", speechLevel |-> "banmal" (* the code's default level *), attitude |-> "", keywords |-> <<>>,
              timeline |-> <<>>, notes |-> "", created |-> t, updated |-> t]
       IN Saved(d, [memory EXCEPT !.characters = Append(@, [key |-> name, val |-> character])],
                t, f, character)

\* findCharacter: the entry under the key, else the first character with the alias
findCharacter(memory, nameOrAlias) ==
  IF charIndex(memory, nameOrAlias) # 0 THEN charIndex(memory, nameOrAlias)
  ELSE FindIndex(memory.characters, LAMBDA e : nameOrAlias \in Range(e.val.aliases))

FreshCharIds(d) ==
  LET memory == loadMemory(d)
      used == IF memory = Null \/ Lacks(memory, "characters") THEN {}
              ELSE {e.val.id : e \in Range(memory.characters)}
      free == CharIds \ used
  IN IF free = {} THEN {} ELSE {CHOOSE i \in free : TRUE}

addCharacterOverwrite(d, id, name, options, t, f) ==
  LET memory == loadMemory(d) IN
  IF memory = Null THEN NoSave(d, Null)
  ELSE LET character ==
             [id |-> id, name |-> name, aliases |-> <<>>, arc |-> options.arc,
              tone |-> "", speechLevel |-> "banmal", attitude |-> "", keywords |-> <<>>,
              timeline |-> <<>>, notes |-> "", created |-> t, updated |-> t]
           ci == charIndex(memory, name)
       IN Saved(d, [memory EXCEPT !.characters =
                      IF ci = 0 THEN Append(@, [key |-> name, val |-> character])
                      ELSE [@ EXCEPT ![ci].val = character]],
                t, f, character)

\* addCharacter(name, options); id is the value generateId returns
addCharacter(d, id, name, options, t, f) ==
  addCharacterLoaded(d, loadMemory(d), id, name, options, t, f)

\* addAlias(characterName, alias)
addAlias(d, characterName, alias, t, f) ==
  LET memory == loadMemory(d) IN
  IF memory = Null THEN NoSave(d, FALSE)
  ELSE LET ci == findCharacter(memory, characterName) IN
       IF ci = 0 THEN NoSave(d, FALSE)
       ELSE IF alias \in Range(memory.characters[ci].val.aliases) THEN NoSave(d, TRUE)
       ELSE Saved(d, [memory EXCEPT !.characters[ci].val.aliases = Append(@, alias),
                                    !.characters[ci].val.updated = t],
                  t, f, TRUE)

\* removeAlias(characterName, alias)
removeAlias(d, characterName, alias, t, f) ==
  LET memory == loadMemory(d) IN
  IF memory = Null THEN NoSave(d, FALSE)
  ELSE LET ci == findCharacter(memory, characterName) IN
       IF ci = 0 THEN NoSave(d, FALSE)
       ELSE LET idx == FindIndex(memory.characters[ci].val.aliases, LAMBDA x : x = alias) IN
            IF idx # 0
            THEN Saved(d, [memory EXCEPT !.characters[ci].val.aliases = Splice(@, idx),
                                         !.characters[ci].val.updated = t],
                       t, f, TRUE)
            ELSE NoSave(d, FALSE)

\* removeCharacter(name), were the relationships of the character deleted with it
removeCharacterCascade(d, name, t, f) ==
  LET memory == loadMemory(d) IN
  IF memory = Null THEN NoSave(d, FALSE)
  ELSE LET ci == findCharacter(memory, name) IN
       IF ci = 0 THEN NoSave(d, FALSE)
       ELSE LET key == memory.characters[ci].val.name
                ki == charIndex(memory, key)
            IN Saved(d, [memory EXCEPT
                           !.characters = IF ki = 0 THEN @ ELSE Splice(@, ki),
                           !.relationships =
                              FlatMap(@, LAMBDA r : When(r.from # key /\ r.to # key, r))],
                     t, f, TRUE)

\* removeCharacter(name): delete memory.characters[character.name]
removeCharacter(d, name, t, f) ==
  LET memory == loadMemory(d) IN
  IF memory = Null THEN NoSave(d, FALSE)
  ELSE LET ci == findCharacter(memory, name) IN
       IF ci = 0 THEN NoSave(d, FALSE)
       ELSE LET key == memory.characters[ci].val.name
                ki == charIndex(memory, key)
            IN Saved(d, [memory EXCEPT !.characters = IF ki = 0 THEN @ ELSE Splice(@, ki)],
                     t, f, TRUE)

----------------------------------------------------------------------------
\* Relationship graph

\* r => (r.from === a && r.to === b) || (r.from === b && r.to === a)
Between(r, a, b) == (r.from = a /\ r.to = b) \/ (r.from = b /\ r.to = a)

relIndex(memory, a, b) == FindIndex(memory.relationships, LAMBDA r : Between(r, a, b))

FreshRelIds(d) ==
  LET memory == loadMemory(d)
      used == IF memory = Null \/ Lacks(memory, "relationships") THEN {}
              ELSE {r.id : r \in Range(memory.relationships)}
      free == RelIds \ used
  IN IF free = {} THEN {} ELSE {CHOOSE i \in free : TRUE}

addRelationshipOneWay(d, id, char1Name, char2Name, type, t, f) ==
  LET memory == loadMemory(d) IN
  IF memory = Null THEN NoSave(d, Null)
  ELSE IF \E r \in Range(memory.relationships) : r.from = char1Name /\ r.to = char2Name
       THEN NoSave(d, Null)
  ELSE LET relationship ==
             [id |-> id, from |-> char1Name, to |-> char2Name, type |-> type,
              dynamic |-> "stable", speechLevel |-> Undefined, notes |-> Undefined,
              evolution |-> <<>>, created |-> t]
       IN Saved(d, [memory EXCEPT !.relationships = Append(@, relationship)],
                t, f, relationship)

\* addRelationship, were a name that is no stored character refused
addRelationshipOfStored(d, id, char1Name, char2Name, type, t, f) ==
  LET memory == loadMemory(d) IN
  IF memory = Null THEN NoSave(d, Null)
  ELSE IF Lacks(memory, "relationships") THEN NoSave(d, Thrown)
  ELSE IF relIndex(memory, char1Name, char2Name) # 0 THEN NoSave(d, Null)
  ELSE IF charIndex(memory, char1Name) = 0 \/ charIndex(memory, char2Name) = 0
       THEN NoSave(d, Null)
  ELSE LET relationship ==
             [id |-> id, from |-> char1Name, to |-> char2Name, type |-> type,
              dynamic |-> "stable", speechLevel |-> Undefined, notes |-> Undefined,
              evolution |-> <<>>, created |-> t]
       IN Saved(d, [memory EXCEPT !.relationships = Append(@, relationship)],
                t, f, relationship)

\* addRelationship(char1Name, char2Name, type); id is the value generateId returns
addRelationship(d, id, char1Name, char2Name, type, t, f) ==
  LET memory == loadMemory(d) IN
  IF memory = Null THEN NoSave(d, Null)
  ELSE IF Lacks(memory, "relationships") THEN NoSave(d, Thrown)
  ELSE IF relIndex(memory, char1Name, char2Name) # 0 THEN NoSave(d, Null)
  ELSE LET relationship ==
             [id |-> id, from |-> char1Name, to |-> char2Name, type |-> type,
              dynamic |-> "stable", speechLevel |-> Undefined, notes |-> Undefined,
              evolution |-> <<>>, created |-> t]
       IN Saved(d, [memory EXCEPT !.relationships = Append(@, relationship)],
                t, f, relationship)

getRelationshipOneWay(d, char1Name, char2Name) ==
  LET memory == loadMemory(d)
      i == IF memory = Null THEN 0
           ELSE FindIndex(memory.relationships,
                          LAMBDA r : r.from = char1Name /\ r.to = char2Name)
  IN IF i = 0 THEN UndefinedRecord ELSE memory.relationships[i]

\* getRelationship(char1Name, char2Name): a record of a memory loaded for this call
getRelationship(d, char1Name, char2Name) ==
  LET memory == loadMemory(d) IN
  IF memory = Null THEN UndefinedRecord
  ELSE IF relIndex(memory, char1Name, char2Name) = 0 THEN UndefinedRecord
  ELSE memory.relationships[relIndex(memory, char1Name, char2Name)]

\* Object.assign(relationship, updates): the fields updates carries replace the
\* record's
Assign(record, updates) ==
  [k \in DOMAIN record \cup DOMAIN updates |->
     IF k \in DOMAIN updates THEN updates[k] ELSE record[k]]

\* updateRelationship(char1Name, char2Name, updates).  `memory` is loaded first;
\* `relationship` comes from getRelationship, which loads a second memory, so the
\* assignment lands in that second object and saveMemory(memory) writes the first.
updateRelationship(d, char1Name, char2Name, updates, t, f) ==
  LET memory == loadMemory(d) IN
  IF memory = Null THEN NoSave(d, Null)
  ELSE LET relationship == getRelationship(d, char1Name, char2Name) IN
       IF relationship = UndefinedRecord THEN NoSave(d, Null)
       ELSE Saved(d, memory, t, f, Assign(relationship, updates))

\* removeRelationship(char1Name, char2Name)
removeRelationship(d, char1Name, char2Name, t, f) ==
  LET memory == loadMemory(d) IN
  IF memory = Null THEN NoSave(d, FALSE)
  ELSE LET index == relIndex(memory, char1Name, char2Name) IN
       IF index = 0 THEN NoSave(d, FALSE)
       ELSE Saved(d, [memory EXCEPT !.relationships = Splice(@, index)], t, f, TRUE)

\* addRelationshipEvent(char1Name, char2Name, change, catalyst).  The event is pushed
\* onto the record getRelationship returned; the memory that is saved is loaded
\* afterwards, from the file.
addRelationshipEvent(d, char1Name, char2Name, change, catalyst, t, f) ==
  LET relationship == getRelationship(d, char1Name, char2Name) IN
  IF relationship = UndefinedRecord THEN NoSave(d, Null)
  ELSE LET event == [timestamp |-> t, change |-> change, catalyst |-> catalyst,
                     sceneId |-> Undefined]
           memory == loadMemory(d)
       IN IF memory = Null THEN NoSave(d, Null)
          ELSE Saved(d, memory, t, f, event)

\* evolution.sort((a, b) => a.timestamp.localeCompare(b.timestamp)): stable
sortByTimestamp(evolution) ==
  LET n == Len(evolution)
      \* the rank of position i: the positions that sort before it, and itself
      rank(i) == Cardinality({j \in 1..n :
                    \/ evolution[j].timestamp < evolution[i].timestamp
                    \/ (evolution[j].timestamp = evolution[i].timestamp /\ j <= i)})
  IN [k \in 1..n |-> evolution[CHOOSE i \in 1..n : rank(i) = k]]

\* getRelationshipTimeline(char1Name, char2Name)
getRelationshipTimeline(d, char1Name, char2Name) ==
  LET relationship == getRelationship(d, char1Name, char2Name) IN
  IF relationship = UndefinedRecord THEN <<>>
  ELSE sortByTimestamp(relationship.evolution)

----------------------------------------------------------------------------
\* Queries.  Each yields the disk as the call leaves it and the value returned.

\* arr.filter(P)
Filter(s, P(_)) == FlatMap(s, LAMBDA x : IF P(x) THEN <<x>> ELSE <<>>)

\* arr.map(F)
Map(s, F(_)) == [i \in DOMAIN s |-> F(s[i])]

\* arr.sort((a, b) => a.order - b.order): stable, ascending
sortByOrder(s) ==
  LET n == Len(s)
      rank(i) == Cardinality({j \in 1..n :
                    \/ s[j].order < s[i].order
                    \/ (s[j].order = s[i].order /\ j <= i)})
  IN [k \in 1..n |-> s[CHOOSE i \in 1..n : rank(i) = k]]

\* Array.from(new Set(...)) of the values pushed in the order of s: each value once,
\* where it first stands
Distinct(s) == Filter([i \in DOMAIN s |-> [at |-> i, v |-> s[i]]],
                      LAMBDA x : \A j \in 1..(x.at - 1) : s[j] # x.v)

\* listCharacters()
listCharacters(d) ==
  LET memory == loadMemory(d) IN
  IF memory = Null THEN NoSave(d, <<>>)
  ELSE NoSave(d, Map(memory.characters, LAMBDA e :
                   [id |-> e.val.id, name |-> e.val.name, arc |-> e.val.arc,
                    tone |-> e.val.tone, emotionCount |-> Len(e.val.timeline),
                    lastUpdated |-> e.val.updated]))

\* resolveCharacter(nameOrAlias)
resolveCharacter(d, nameOrAlias) ==
  LET memory == loadMemory(d) IN
  IF memory = Null THEN NoSave(d, Null)
  ELSE LET ci == findCharacter(memory, nameOrAlias) IN
       NoSave(d, IF ci = 0 THEN Null ELSE memory.characters[ci].val)

\* getEmotionTimeline(characterName): character?.timeline || []
getEmotionTimeline(d, characterName) ==
  LET character == resolveCharacter(d, characterName).ret IN
  NoSave(d, IF character = Null THEN <<>> ELSE character.timeline)

\* listRelationships(characterName?)
listRelationships(d, characterName) ==
  LET memory == loadMemory(d) IN
  IF memory = Null THEN NoSave(d, <<>>)
  ELSE IF characterName = Undefined \/ characterName = "" THEN NoSave(d, memory.relationships)
  ELSE NoSave(d, Filter(memory.relationships,
                        LAMBDA r : r.from = characterName \/ r.to = characterName))

\* getRelationshipWeb()
getRelationshipWeb(d) ==
  LET memory == loadMemory(d) IN
  IF memory = Null THEN NoSave(d, [nodes |-> <<>>, edges |-> <<>>])
  ELSE NoSave(d,
         [nodes |-> Map(Distinct(FlatMap(memory.relationships, LAMBDA r : <<r.from, r.to>>)),
                        LAMBDA x : x.v),
          edges |-> Map(memory.relationships,
                        LAMBDA r : [from |-> r.from, to |-> r.to, type |-> r.type])])

\* arr.includes(x)
Has(arr, x) == \E i \in DOMAIN arr : arr[i] = x

\* an option that is set and not empty
Given(x) == x # Undefined /\ x # ""

\* getScene(sceneId): a store that does not load is the caught TypeError
getScene(d, sceneId) ==
  LET memory == loadMemory(d) IN
  IF memory = Null THEN NoSave(d, Null)
  ELSE LET si == findSceneById(memory, sceneId) IN
       NoSave(d, IF si = 0 THEN Null ELSE memory.scenes[si])

\* listScenes(options?), were the filtered scenes left in the sequence of the store
listScenesUnsorted(d, options) ==
  LET memory == loadMemory(d) IN
  IF memory = Null THEN NoSave(d, <<>>)
  ELSE LET byChapter == IF Given(options.chapter)
                        THEN Filter(memory.scenes,
                                    LAMBDA x : Get(x, "chapter") = options.chapter)
                        ELSE memory.scenes
           byCharacter == IF Given(options.character)
                          THEN Filter(byChapter,
                                      LAMBDA x : Has(x.characters, options.character))
                          ELSE byChapter
           byTag == IF Given(options.emotionTag)
                    THEN Filter(byCharacter, LAMBDA x : Has(x.emotionTags, options.emotionTag))
                    ELSE byCharacter
       IN NoSave(d, Map(byTag, LAMBDA x :
                      [id |-> x.id, title |-> x.title, chapter |-> Get(x, "chapter"),
                       order |-> x.order, characterCount |-> Len(x.characters),
                       cutCount |-> Len(x.cuts), emotionTags |-> x.emotionTags]))

\* listScenes(options?)
listScenes(d, options) ==
  LET memory == loadMemory(d) IN
  IF memory = Null THEN NoSave(d, <<>>)
  ELSE LET byChapter == IF Given(options.chapter)
                        THEN Filter(memory.scenes,
                                    LAMBDA x : Get(x, "chapter") = options.chapter)
                        ELSE memory.scenes
           byCharacter == IF Given(options.character)
                          THEN Filter(byChapter,
                                      LAMBDA x : Has(x.characters, options.character))
                          ELSE byChapter
           byTag == IF Given(options.emotionTag)
                    THEN Filter(byCharacter, LAMBDA x : Has(x.emotionTags, options.emotionTag))
                    ELSE byCharacter
       IN NoSave(d, Map(sortByOrder(byTag), LAMBDA x :
                      [id |-> x.id, title |-> x.title, chapter |-> Get(x, "chapter"),
                       order |-> x.order, characterCount |-> Len(x.characters),
                       cutCount |-> Len(x.cuts), emotionTags |-> x.emotionTags]))

\* getScenesByEmotion(emotionTag)
getScenesByEmotion(d, emotionTag) ==
  LET memory == loadMemory(d) IN
  IF memory = Null THEN NoSave(d, <<>>)
  ELSE NoSave(d, sortByOrder(Filter(memory.scenes,
                                    LAMBDA x : Has(x.emotionTags, emotionTag))))

\* getSceneFlow(), were the scenes it sorts in place written back to the store
getSceneFlowWriting(d) ==
  LET memory == loadMemory(d) IN
  IF memory = Null THEN NoSave(d, <<>>)
  ELSE [disk |-> [d EXCEPT !.file = JSONstringify(
                                      [memory EXCEPT !.scenes = sortByOrder(@)])],
        ret |-> Map(sortByOrder(memory.scenes), LAMBDA x :
                  [order |-> x.order + 1, title |-> x.title, chapter |-> Get(x, "chapter"),
                   primaryEmotion |-> IF x.emotionTags = <<>> \/ x.emotionTags[1] = ""
                                      THEN "unset" ELSE x.emotionTags[1],
                   characters |-> x.characters, cutCount |-> Len(x.cuts)]),
        saves |-> 0]

\* getSceneFlow(): the scenes of the loaded copy are sorted in place, nothing is saved
getSceneFlow(d) ==
  LET memory == loadMemory(d) IN
  IF memory = Null THEN NoSave(d, <<>>)
  ELSE NoSave(d, Map(sortByOrder(memory.scenes), LAMBDA x :
                   [order |-> x.order + 1, title |-> x.title, chapter |-> Get(x, "chapter"),
                    primaryEmotion |-> IF x.emotionTags = <<>> \/ x.emotionTags[1] = ""
                                       THEN "unset" ELSE x.emotionTags[1],
                    characters |-> x.characters, cutCount |-> Len(x.cuts)]))

\* searchMemory(memory, query).  A text is one word, so that it includes the query
\* when the query is empty or is that word; no text reaches the 120 characters at which
\* truncate cuts it.
Matches(text, q) == text # Undefined /\ (q = "" \/ text = q)

\* arr.filter(Boolean): the texts that are set and not empty
Truthy(arr) == Filter(arr, LAMBDA x : x # Undefined /\ x # "")

\* text || other
Or(text, other) == IF text = Undefined \/ text = "" THEN other ELSE text

\* truncate(text, 120)
truncate(text) == IF text = Undefined THEN "" ELSE text

\* memory.characters[key]?.name ?? key
NameOf(memory, key) ==
  LET ci == FindIndex(memory.characters, LAMBDA e : e.key = key) IN
  IF ci = 0 THEN key ELSE memory.characters[ci].val.name

searchCharacters(memory, q) ==
  FlatMap(memory.characters, LAMBDA e :
    LET char == e.val IN
    When(\/ Matches(char.name, q) \/ Matches(char.arc, q) \/ Matches(char.tone, q)
         \/ Matches(char.attitude, q) \/ Matches(char.notes, q)
         \/ \E i \in DOMAIN char.aliases : Matches(char.aliases[i], q)
         \/ \E i \in DOMAIN char.keywords : Matches(char.keywords[i], q),
         [type |-> "character", id |-> char.id, title |-> char.name,
          relevance |-> IF Matches(char.name, q) THEN "name" ELSE "content",
          snippet |-> Truthy(<<char.arc, char.tone, char.attitude>>)]))

searchRelationships(memory, q) ==
  FlatMap(memory.relationships, LAMBDA rel :
    When(Matches(rel.dynamic, q) \/ Matches(Get(rel, "notes"), q),
         [type |-> "relationship", id |-> rel.id,
          title |-> <<NameOf(memory, rel.from), NameOf(memory, rel.to)>>,
          relevance |-> "content", snippet |-> <<truncate(rel.dynamic)>>]))

searchScenes(memory, q) ==
  FlatMap(memory.scenes, LAMBDA scene :
    When(\/ Matches(scene.title, q) \/ Matches(scene.narrationTone, q)
         \/ Matches(scene.notes, q)
         \/ \E i \in DOMAIN scene.emotionTags : Matches(scene.emotionTags[i], q)
         \/ \E i \in DOMAIN scene.cuts : Matches(scene.cuts[i].content, q),
         [type |-> "scene", id |-> scene.id, title |-> scene.title,
          relevance |-> IF Matches(scene.title, q) THEN "title" ELSE "content",
          snippet |-> Map(SubSeq(scene.cuts, 1, IF Len(scene.cuts) < 2 THEN Len(scene.cuts)
                                                ELSE 2),
                          LAMBDA c : c.content)]))

searchThemes(memory, q) ==
  FlatMap(memory.themes, LAMBDA theme :
    When(\/ Matches(theme.name, q) \/ Matches(theme.description, q)
         \/ \E i \in DOMAIN theme.keywords : Matches(theme.keywords[i], q),
         [type |-> "theme", id |-> theme.id, title |-> theme.name,
          relevance |-> IF Matches(theme.name, q) THEN "name" ELSE "content",
          snippet |-> <<truncate(theme.description)>>]))

searchWorld(memory, q) ==
  LET world == memory.world
      li == FindIndex(world.locations,
                      LAMBDA l : Matches(l.name, q) \/ Matches(l.description, q))
  IN When(\/ Matches(world.name, q) \/ Matches(world.era, q)
          \/ Matches(world.atmosphere, q) \/ Matches(world.notes, q)
          \/ \E i \in DOMAIN world.culturalNotes : Matches(world.culturalNotes[i], q)
          \/ \E i \in DOMAIN world.locations :
               \/ Matches(world.locations[i].name, q)
               \/ Matches(world.locations[i].description, q)
               \/ Matches(world.locations[i].atmosphere, q),
          [type |-> "world",
           id |-> IF li = 0 THEN "world" ELSE world.locations[li].id,
           title |-> IF li = 0 THEN Or(world.name, "World") ELSE world.locations[li].name,
           relevance |-> "content",
           snippet |-> <<truncate(IF li = 0 THEN world.atmosphere
                                  ELSE world.locations[li].description)>>])

searchMemory(memory, query) ==
  searchCharacters(memory, query) \o searchRelationships(memory, query)
    \o searchScenes(memory, query) \o searchThemes(memory, query)
    \o searchWorld(memory, query)

\* generateSynopsis(options?).  A text is the sequence of its sentences or lines, a
\* warning the one sentence that names it, so that split('.')[0] and split('\n')[0] are
\* the first element.
findProtagonist(memory, name) ==
  LET ci == IF Given(name)
            THEN FindIndex(memory.characters,
                           LAMBDA e : e.val.name = name \/ Has(e.val.aliases, name))
            ELSE IF memory.characters = <<>> THEN 0 ELSE 1
  IN IF ci = 0 THEN Null ELSE memory.characters[ci].val

Warn(what, who) == <<[warning |-> what, name |-> who]>>

extractProtagonistAttitude(memory, protagonistName) ==
  LET protagonist == findProtagonist(memory, protagonistName) IN
  IF protagonist = Null THEN Warn("noProtagonist", Undefined)
  ELSE LET parts == Truthy(<<protagonist.arc, protagonist.attitude>>) IN
       IF parts = <<>> THEN Warn("noAttitude", protagonist.name) ELSE parts

extractCoreRelationships(memory, protagonistName) ==
  LET protagonist == findProtagonist(memory, protagonistName) IN
  IF protagonist = Null THEN Warn("noProtagonist", Undefined)
  ELSE LET rels == Filter(memory.relationships,
                          LAMBDA r : r.from = protagonist.name \/ r.to = protagonist.name)
       IN IF rels = <<>> THEN Warn("noRelationships", protagonist.name)
          ELSE Map(rels, LAMBDA r :
                 [name |-> protagonist.name,
                  other |-> IF r.from = protagonist.name THEN r.to ELSE r.from,
                  how |-> Or(r.dynamic, r.type)])

extractEmotionalTheme(memory) ==
  IF memory.themes = <<>> THEN Warn("noTheme", Undefined)
  ELSE Map(memory.themes, LAMBDA th : Or(th.description, th.name))

extractGenreVsEmotion(memory) ==
  IF Given(Get(memory.synopsis, "genreVsRealEmotion"))
  THEN <<memory.synopsis.genreVsRealEmotion>>
  ELSE <<[genre |-> Or(memory.project.genre, "unspecified")],
         [warning |-> "noRealEmotion", name |-> Undefined]>>

extractEndingAftertaste(memory) ==
  IF Given(Get(memory.synopsis, "endingAftertaste"))
  THEN <<memory.synopsis.endingAftertaste>>
  ELSE Warn("noAftertaste", Undefined)

\* chars[0]?.name || '주인공'
firstName(memory) ==
  IF memory.characters = <<>> THEN "protagonist"
  ELSE Or(memory.characters[1].val.name, "protagonist")

formatFullSynopsis(attitude, relationships, theme, genreContrast, aftertaste, memory) ==
  [format |-> "full", projectName |-> Or(memory.project.name, "untitled"),
   attitude |-> attitude, relationships |-> relationships, theme |-> theme,
   genreContrast |-> genreContrast, aftertaste |-> aftertaste,
   charList |-> Map(memory.characters, LAMBDA e :
                  [name |-> e.val.name,
                   about |-> Or(e.val.attitude, Or(e.val.arc, "noDescription"))]),
   sceneCount |-> Len(memory.scenes),
   emotionFlow |-> Map(Filter(memory.scenes, LAMBDA x : Len(x.emotionTags) > 0),
                       LAMBDA x : x.emotionTags[1])]

formatBriefSynopsis(attitude, relationships, theme, memory) ==
  [format |-> "brief", name |-> firstName(memory), attitude |-> attitude[1],
   theme |-> theme[1], relationships |-> relationships[1]]

formatPitchSynopsis(attitude, relationships, theme, genreContrast, memory) ==
  [format |-> "pitch", projectName |-> Or(memory.project.name, "thisStory"),
   attitude |-> attitude[1], name |-> firstName(memory), theme |-> theme[1],
   genreContrast |-> genreContrast[1]]

generateSynopsis(d, options) ==
  LET memory == loadMemory(d) IN
  IF memory = Null THEN NoSave(d, Null)
  ELSE LET format == Or(options.format, "full")
           protagonist == options.protagonist
           attitude == extractProtagonistAttitude(memory, protagonist)
           relationships == extractCoreRelationships(memory, protagonist)
           theme == extractEmotionalTheme(memory)
           genreContrast == extractGenreVsEmotion(memory)
           aftertaste == extractEndingAftertaste(memory)
       IN NoSave(d,
            CASE format = "brief" ->
                   formatBriefSynopsis(attitude, relationships, theme, memory)
              [] format = "pitch" ->
                   formatPitchSynopsis(attitude, relationships, theme, genreContrast, memory)
              [] OTHER ->
                   formatFullSynopsis(attitude, relationships, theme, genreContrast,
                                      aftertaste, memory))

----------------------------------------------------------------------------
\* The other operations of the character tracker.  A text is the sequence of its
\* parts, so that the empty string is the empty sequence.

\* const { id, name, created, ...allowedUpdates } = updates
Without(updates, keys) == [k \in DOMAIN updates \ keys |-> updates[k]]

\* updateCharacter(name, updates), were every supplied field assigned
updateCharacterAssignAll(d, name, updates, t, f) ==
  LET memory == loadMemory(d) IN
  IF memory = Null THEN NoSave(d, Null)
  ELSE LET ci == findCharacter(memory, name) IN
       IF ci = 0 THEN NoSave(d, Null)
       ELSE LET character == Assign(Assign(memory.characters[ci].val, updates),
                                    [updated |-> t])
            IN Saved(d, [memory EXCEPT !.characters[ci].val = character], t, f, character)

\* updateCharacter(name, updates), were name not taken out of the updates
updateCharacterRenaming(d, name, updates, t, f) ==
  LET memory == loadMemory(d) IN
  IF memory = Null THEN NoSave(d, Null)
  ELSE LET ci == findCharacter(memory, name) IN
       IF ci = 0 THEN NoSave(d, Null)
       ELSE LET character == Assign(Assign(memory.characters[ci].val,
                                           Without(updates, {"id", "created"})),
                                    [updated |-> t])
            IN Saved(d, [memory EXCEPT !.characters[ci].val = character], t, f, character)

\* updateCharacter(name, updates)
updateCharacter(d, name, updates, t, f) ==
  LET memory == loadMemory(d) IN
  IF memory = Null THEN NoSave(d, Null)
  ELSE LET ci == findCharacter(memory, name) IN
       IF ci = 0 THEN NoSave(d, Null)
       ELSE LET character == Assign(Assign(memory.characters[ci].val,
                                           Without(updates, {"id", "name", "created"})),
                                    [updated |-> t])
            IN Saved(d, [memory EXCEPT !.characters[ci].val = character], t, f, character)

\* addEmotionPoint(characterName, emotion, trigger, options?)
addEmotionPoint(d, characterName, emotion, trigger, options, t, f) ==
  LET memory == loadMemory(d) IN
  IF memory = Null THEN NoSave(d, FALSE)
  ELSE LET ci == findCharacter(memory, characterName) IN
       IF ci = 0 THEN NoSave(d, FALSE)
       ELSE LET point == [timestamp |-> t, sceneId |-> options.sceneId,
                          emotion |-> emotion, trigger |-> trigger,
                          intensity |-> IF options.intensity = Undefined
                                           \/ options.intensity = 0
                                        THEN 3 ELSE options.intensity]
            IN Saved(d, [memory EXCEPT !.characters[ci].val.timeline = Append(@, point),
                                       !.characters[ci].val.updated = t],
                     t, f, TRUE)

\* getLatestEmotion(characterName)
getLatestEmotion(d, characterName) ==
  LET timeline == getEmotionTimeline(d, characterName).ret IN
  NoSave(d, IF Len(timeline) > 0 THEN timeline[Len(timeline)] ELSE Null)

\* getEmotionArc(characterName): the emotions joined, '' without any
getEmotionArc(d, characterName) ==
  LET timeline == getEmotionTimeline(d, characterName).ret IN
  NoSave(d, IF Len(timeline) = 0 THEN <<>> ELSE Map(timeline, LAMBDA p : p.emotion))

\* A line of dialogue: how many '!' it has, how many of its sentences end in a
\* pattern of each family, and the keywords it includes.
detectSpeechLevel(text) ==
  IF text.formal > text.informal /\ text.formal > text.casual THEN "jondaetmal"
  ELSE IF text.casual > text.informal THEN "haeche"
  ELSE IF text.informal > 0 THEN "banmal"
  ELSE "mixed"

\* validateDialogue(characterName, dialogue), were one failed check enough to FAIL
validateDialogueStrict(d, characterName, dialogue) ==
  LET character == resolveCharacter(d, characterName).ret IN
  IF character = Null
  THEN NoSave(d, [status |-> "FAIL", character |-> characterName,
                  checks |-> [toneMatch |-> [passed |-> FALSE, detail |-> "notFound"],
                              speechLevelMatch |-> [passed |-> FALSE, detail |-> "notFound"],
                              keywordConsistency |-> [passed |-> FALSE,
                                                      detail |-> "notFound"]],
                  suggestion |-> <<[error |-> "notInMemory", name |-> characterName]>>])
  ELSE LET tooLoud == character.tone = "plain" /\ dialogue.exclamations > 1
           toneCheck == [passed |-> ~tooLoud,
                         detail |-> IF tooLoud THEN "tooManyExclamations" ELSE "toneMatches"]
           detected == detectSpeechLevel(dialogue)
           speechCheck == [passed |-> detected = character.speechLevel \/ detected = "mixed",
                           detail |-> IF detected = character.speechLevel
                                      THEN "levelMatches" ELSE "levelDiffers"]
           hasKeyword == \E i \in DOMAIN character.keywords :
                            character.keywords[i] \in dialogue.words
           keywordCheck == IF Len(character.keywords) > 0
                           THEN [passed |-> hasKeyword,
                                 detail |-> IF hasKeyword THEN "keywordIncluded"
                                            ELSE "keywordMissing"]
                           ELSE [passed |-> TRUE, detail |-> "noKeywords"]
           failCount == Cardinality({c \in {"tone", "speech", "keyword"} :
                           \/ c = "tone" /\ ~toneCheck.passed
                           \/ c = "speech" /\ ~speechCheck.passed
                           \/ c = "keyword" /\ ~keywordCheck.passed})
           suggestions == When(~toneCheck.passed, "adjustTone")
                            \o When(~speechCheck.passed, "fixSpeechLevel")
                            \o When(~keywordCheck.passed, "useKeyword")
       IN NoSave(d, [status |-> IF failCount = 0 THEN "PASS"
                                ELSE IF failCount >= 1 THEN "FAIL" ELSE "WARN",
                     character |-> character.name,
                     checks |-> [toneMatch |-> toneCheck, speechLevelMatch |-> speechCheck,
                                 keywordConsistency |-> keywordCheck],
                     suggestion |-> IF Len(suggestions) > 0 THEN suggestions
                                    ELSE <<"fitsCharacter">>])

\* validateDialogue(characterName, dialogue)
validateDialogue(d, characterName, dialogue) ==
  LET character == resolveCharacter(d, characterName).ret IN
  IF character = Null
  THEN NoSave(d, [status |-> "FAIL", character |-> characterName,
                  checks |-> [toneMatch |-> [passed |-> FALSE, detail |-> "notFound"],
                              speechLevelMatch |-> [passed |-> FALSE, detail |-> "notFound"],
                              keywordConsistency |-> [passed |-> FALSE,
                                                      detail |-> "notFound"]],
                  suggestion |-> <<[error |-> "notInMemory", name |-> characterName]>>])
  ELSE LET tooLoud == character.tone = "plain" /\ dialogue.exclamations > 1
           toneCheck == [passed |-> ~tooLoud,
                         detail |-> IF tooLoud THEN "tooManyExclamations" ELSE "toneMatches"]
           detected == detectSpeechLevel(dialogue)
           speechCheck == [passed |-> detected = character.speechLevel \/ detected = "mixed",
                           detail |-> IF detected = character.speechLevel
                                      THEN "levelMatches" ELSE "levelDiffers"]
           hasKeyword == \E i \in DOMAIN character.keywords :
                            character.keywords[i] \in dialogue.words
           keywordCheck == IF Len(character.keywords) > 0
                           THEN [passed |-> hasKeyword,
                                 detail |-> IF hasKeyword THEN "keywordIncluded"
                                            ELSE "keywordMissing"]
                           ELSE [passed |-> TRUE, detail |-> "noKeywords"]
           failCount == Cardinality({c \in {"tone", "speech", "keyword"} :
                           \/ c = "tone" /\ ~toneCheck.passed
                           \/ c = "speech" /\ ~speechCheck.passed
                           \/ c = "keyword" /\ ~keywordCheck.passed})
           suggestions == When(~toneCheck.passed, "adjustTone")
                            \o When(~speechCheck.passed, "fixSpeechLevel")
                            \o When(~keywordCheck.passed, "useKeyword")
       IN NoSave(d, [status |-> IF failCount = 0 THEN "PASS"
                                ELSE IF failCount >= 2 THEN "FAIL" ELSE "WARN",
                     character |-> character.name,
                     checks |-> [toneMatch |-> toneCheck, speechLevelMatch |-> speechCheck,
                                 keywordConsistency |-> keywordCheck],
                     suggestion |-> IF Len(suggestions) > 0 THEN suggestions
                                    ELSE <<"fitsCharacter">>])

\* a section of a profile, there when its condition holds
Section(cond, label, value) == When(cond, [label |-> label, value |-> value])

\* generateCharacterProfile(characterName)
generateCharacterProfile(d, characterName) ==
  LET character == resolveCharacter(d, characterName).ret IN
  IF character = Null
  THEN NoSave(d, <<[error |-> "characterNotFound", name |-> characterName]>>)
  ELSE LET latest == getLatestEmotion(d, characterName).ret
           arc == getEmotionArc(d, characterName).ret
       IN NoSave(d,
            <<[label |-> "title", value |-> character.name]>>
              \o Section(Len(character.aliases) > 0, "aliases", character.aliases)
              \o Section(character.arc # "", "arc", character.arc)
              \o Section(character.tone # "", "tone", character.tone)
              \o <<[label |-> "speechLevel", value |-> character.speechLevel]>>
              \o Section(Len(character.keywords) > 0, "keywords", character.keywords)
              \o Section(latest # Null, "latest", latest)
              \o Section(character.attitude # "", "attitude", character.attitude)
              \o Section(arc # <<>>, "emotionArc", arc)
              \o Section(character.notes # "", "notes", character.notes))

----------------------------------------------------------------------------
\* The other operations of the relationship graph.

\* getRelationshipArc(char1Name, char2Name)
getRelationshipArc(d, char1Name, char2Name) ==
  LET timeline == getRelationshipTimeline(d, char1Name, char2Name) IN
  NoSave(d, IF Len(timeline) = 0 THEN <<[error |-> "noChange"]>>
            ELSE Map(timeline, LAMBDA ev : ev.change))

\* getCharacterConnections(characterName)
getCharacterConnections(d, characterName) ==
  NoSave(d, Map(listRelationships(d, characterName).ret, LAMBDA r :
              [relationship |-> r, direction |-> "mutual",
               otherCharacter |-> IF r.from = characterName THEN r.to ELSE r.from]))

\* getKoreanRelationType(type)
getKoreanRelationType(type) == [label |-> type]

\* generateRelationshipProfile(char1Name, char2Name)
generateRelationshipProfile(d, char1Name, char2Name) ==
  LET relationship == getRelationship(d, char1Name, char2Name) IN
  IF relationship = UndefinedRecord
  THEN NoSave(d, <<[label |-> "title", value |-> <<char1Name, char2Name>>],
                   [error |-> "noRelationship"]>>)
  ELSE LET timeline == getRelationshipTimeline(d, char1Name, char2Name)
           arc == getRelationshipArc(d, char1Name, char2Name).ret
       IN NoSave(d,
            <<[label |-> "title", value |-> <<char1Name, char2Name>>],
              [label |-> "type", value |-> getKoreanRelationType(relationship.type)],
              [label |-> "dynamic", value |-> relationship.dynamic]>>
              \o Section(Given(Get(relationship, "speechLevel")), "speechLevel",
                         Get(relationship, "speechLevel"))
              \o Section(Given(Get(relationship, "notes")), "notes",
                         Get(relationship, "notes"))
              \o Section(Len(timeline) > 0, "arc", arc)
              \o Section(Len(timeline) > 0, "events",
                         Map(timeline, LAMBDA ev :
                           <<ev.change, ev.catalyst>>
                             \o When(Given(Get(ev, "sceneId")), Get(ev, "sceneId")))))

\* generateRelationshipMap()
generateRelationshipMap(d) ==
  LET web == getRelationshipWeb(d).ret IN
  IF Len(web.nodes) = 0 THEN NoSave(d, <<[error |-> "noRelationships"]>>)
  ELSE NoSave(d,
         <<[label |-> "title", value |-> "map"]>>
           \o FlatMap(web.nodes, LAMBDA node :
                LET connections == getCharacterConnections(d, node).ret IN
                Section(Len(connections) > 0, node,
                        Map(connections, LAMBDA conn :
                          [symbol |-> conn.relationship.type,
                           other |-> conn.otherCharacter,
                           type |-> getKoreanRelationType(conn.relationship.type)]))))

----------------------------------------------------------------------------
\* The other operations of the scene manager.  Each runs in a try block whose catch
\* returns the failure value, so that a store that does not load (a TypeError on
\* null) ends there.

\* updateScene(sceneId, updates), were its body not in a try block
updateSceneUncaught(d, sceneId, updates, t, f) ==
  LET memory == loadMemory(d) IN
  IF memory = Null THEN NoSave(d, Thrown)
  ELSE LET si == findSceneById(memory, sceneId) IN
       IF si = 0 THEN NoSave(d, Null)
       ELSE LET scene == Assign(memory.scenes[si],
                                Assign(updates, [id |-> memory.scenes[si].id,
                                                 created |-> memory.scenes[si].created]))
            IN Saved(d, [memory EXCEPT !.scenes[si] = scene], t, f, scene)

\* updateScene(sceneId, updates)
updateScene(d, sceneId, updates, t, f) ==
  LET memory == loadMemory(d) IN
  IF memory = Null THEN NoSave(d, Null)
  ELSE LET si == findSceneById(memory, sceneId) IN
       IF si = 0 THEN NoSave(d, Null)
       ELSE LET scene == Assign(memory.scenes[si],
                                Assign(updates, [id |-> memory.scenes[si].id,
                                                 created |-> memory.scenes[si].created]))
            IN Saved(d, [memory EXCEPT !.scenes[si] = scene], t, f, scene)

\* updateCut(sceneId, cutOrder, updates)
updateCut(d, sceneId, cutOrder, updates, t, f) ==
  LET memory == loadMemory(d) IN
  IF memory = Null THEN NoSave(d, FALSE)
  ELSE LET si == findSceneById(memory, sceneId) IN
       IF si = 0 THEN NoSave(d, FALSE)
       ELSE LET ki == FindIndex(memory.scenes[si].cuts, LAMBDA c : c.order = cutOrder) IN
            IF ki = 0 THEN NoSave(d, FALSE)
            ELSE LET cut == memory.scenes[si].cuts[ki] IN
                 Saved(d, [memory EXCEPT !.scenes[si].cuts[ki] =
                                            Assign(cut, Assign(updates, [order |-> cut.order]))],
                       t, f, TRUE)

\* arr.sort((a, b) => b.count - a.count): stable, descending
sortByCount(s) ==
  LET n == Len(s)
      rank(i) == Cardinality({j \in 1..n :
                    \/ s[j].count > s[i].count
                    \/ (s[j].count = s[i].count /\ j <= i)})
  IN [k \in 1..n |-> s[CHOOSE i \in 1..n : rank(i) = k]]

\* getAllEmotionTags()
getAllEmotionTags(d) ==
  LET memory == loadMemory(d) IN
  IF memory = Null THEN NoSave(d, <<>>)
  ELSE LET all == FlatMap(memory.scenes, LAMBDA x : x.emotionTags)
       IN NoSave(d, sortByCount(Map(Distinct(all), LAMBDA x :
                      [tag |-> x.v,
                       count |-> Cardinality({i \in DOMAIN all : all[i] = x.v})])))

\* generateSceneProfile(sceneId)
generateSceneProfile(d, sceneId) ==
  LET scene == getScene(d, sceneId).ret IN
  IF scene = Null THEN NoSave(d, <<[error |-> "sceneNotFound", name |-> sceneId]>>)
  ELSE NoSave(d,
         <<[label |-> "title", value |-> scene.title]>>
           \o Section(Given(Get(scene, "chapter")), "chapter", Get(scene, "chapter"))
           \o Section(Len(scene.characters) > 0, "characters", scene.characters)
           \o Section(Len(scene.emotionTags) > 0, "emotionTags", scene.emotionTags)
           \o Section(scene.narrationTone # "", "narrationTone", scene.narrationTone)
           \o Section(scene.notes # "", "notes", scene.notes)
           \o <<[label |-> "cuts",
                 value |-> Map(scene.cuts, LAMBDA cut :
                             [order |-> cut.order + 1, type |-> cut.type,
                              character |-> Or(Get(cut, "character"), ""),
                              content |-> cut.content,
                              emotion |-> Or(Get(cut, "emotionTag"), "")])]>>)

\* generateSceneList()
generateSceneList(d) ==
  LET memory == loadMemory(d) IN
  IF memory = Null THEN NoSave(d, <<[error |-> "sceneListFailed"]>>)
  ELSE NoSave(d,
         <<[label |-> "header", value |-> "scenes"]>>
           \o IF Len(memory.scenes) = 0 THEN <<[label |-> "row", value |-> "noScenes"]>>
              ELSE Map(sortByOrder(memory.scenes), LAMBDA x :
                     [label |-> "row",
                      value |-> [num |-> x.order + 1, title |-> x.title,
                                 chapter |-> Or(Get(x, "chapter"), "-"),
                                 emotions |-> x.emotionTags, characters |-> x.characters,
                                 cutCount |-> Len(x.cuts)]]))

----------------------------------------------------------------------------
\* The synopsis state, the checklist and the exports.

\* saveSynopsisState(state)
saveSynopsisState(d, state, t, f) ==
  LET memory == loadMemory(d) IN
  IF memory = Null THEN NoSave(d, FALSE)
  ELSE saveMemoryCall(d, [memory EXCEPT !.synopsis = Assign(state, [lastGenerated |-> t])],
                      t, f)

\* loadSynopsisState(): memory?.synopsis || null
loadSynopsisState(d) ==
  LET memory == loadMemory(d) IN
  NoSave(d, IF memory = Null THEN Null ELSE memory.synopsis)

\* updateSynopsisElement(element, value)
updateSynopsisElement(d, element, value, t, f) ==
  LET memory == loadMemory(d) IN
  IF memory = Null THEN NoSave(d, FALSE)
  ELSE saveMemoryCall(d, [memory EXCEPT !.synopsis =
                            Assign(Assign(@, [x \in {element} |-> value]),
                                   [lastGenerated |-> t])],
                      t, f)

\* getSynopsisChecklist(memory), were only the relationships from the first character
\* counted
getSynopsisChecklistFromOnly(memory) ==
  LET protagonist == IF memory.characters = <<>> THEN Null ELSE memory.characters[1].val
      hasArc == protagonist # Null /\ protagonist.arc # ""
      hasAttitude == protagonist # Null /\ protagonist.attitude # ""
      relCount == IF protagonist = Null THEN 0
                  ELSE Len(Filter(memory.relationships,
                                  LAMBDA r : r.from = protagonist.name))
      hasGenreContrast == Given(Get(memory.synopsis, "genreVsRealEmotion"))
      hasAftertaste == Given(Get(memory.synopsis, "endingAftertaste"))
      Item(element, status, source) ==
        [element |-> element, status |-> status, source |-> source,
         suggestion |-> IF status = "complete" THEN "" ELSE element]
  IN <<Item("protagonistAttitude",
            IF hasArc /\ hasAttitude THEN "complete"
            ELSE IF hasArc \/ hasAttitude THEN "partial" ELSE "missing",
            IF protagonist = Null THEN <<>> ELSE <<protagonist.name>>),
       Item("coreRelationships",
            IF relCount >= 2 THEN "complete"
            ELSE IF relCount = 1 THEN "partial" ELSE "missing",
            <<relCount>>),
       Item("emotionalTheme",
            IF Len(memory.themes) > 0 THEN "complete" ELSE "missing",
            <<Len(memory.themes)>>),
       Item("genreVsEmotion", IF hasGenreContrast THEN "complete" ELSE "missing",
            <<hasGenreContrast>>),
       Item("endingAftertaste", IF hasAftertaste THEN "complete" ELSE "missing",
            <<hasAftertaste>>)>>

\* getSynopsisChecklist(memory)
getSynopsisChecklist(memory) ==
  LET protagonist == IF memory.characters = <<>> THEN Null ELSE memory.characters[1].val
      hasArc == protagonist # Null /\ protagonist.arc # ""
      hasAttitude == protagonist # Null /\ protagonist.attitude # ""
      relCount == IF protagonist = Null THEN 0
                  ELSE Len(Filter(memory.relationships,
                                  LAMBDA r : r.from = protagonist.name
                                             \/ r.to = protagonist.name))
      hasGenreContrast == Given(Get(memory.synopsis, "genreVsRealEmotion"))
      hasAftertaste == Given(Get(memory.synopsis, "endingAftertaste"))
      Item(element, status, source) ==
        [element |-> element, status |-> status, source |-> source,
         suggestion |-> IF status = "complete" THEN "" ELSE element]
  IN <<Item("protagonistAttitude",
            IF hasArc /\ hasAttitude THEN "complete"
            ELSE IF hasArc \/ hasAttitude THEN "partial" ELSE "missing",
            IF protagonist = Null THEN <<>> ELSE <<protagonist.name>>),
       Item("coreRelationships",
            IF relCount >= 2 THEN "complete"
            ELSE IF relCount = 1 THEN "partial" ELSE "missing",
            <<relCount>>),
       Item("emotionalTheme",
            IF Len(memory.themes) > 0 THEN "complete" ELSE "missing",
            <<Len(memory.themes)>>),
       Item("genreVsEmotion", IF hasGenreContrast THEN "complete" ELSE "missing",
            <<hasGenreContrast>>),
       Item("endingAftertaste", IF hasAftertaste THEN "complete" ELSE "missing",
            <<hasAftertaste>>)>>

\* exportSynopsisAsMarkdown(), at the time t
exportSynopsisAsMarkdown(d, t) ==
  LET memory == loadMemory(d) IN
  IF memory = Null THEN NoSave(d, <<[error |-> "noMemory"]>>)
  ELSE LET synopsis == generateSynopsis(d, [protagonist |-> Undefined, format |-> "full"]).ret
       IN IF synopsis = Null THEN NoSave(d, <<[error |-> "noSynopsis"]>>)
          ELSE NoSave(d, <<[label |-> "meta",
                            value |-> [project |-> Or(memory.project.name, "Untitled"),
                                       genre |-> Or(memory.project.genre, "Unspecified"),
                                       generated |-> t]],
                           [label |-> "synopsis", value |-> synopsis]>>)

\* exportSynopsisAsJSON(), at the time t
exportSynopsisAsJSON(d, t) ==
  LET memory == loadMemory(d)
      As(fm) == generateSynopsis(d, [protagonist |-> Undefined, format |-> fm]).ret
  IN IF memory = Null THEN NoSave(d, [error |-> "noMemory"])
     ELSE NoSave(d,
            [metadata |-> [project |-> memory.project.name, genre |-> memory.project.genre,
                           generated |-> t],
             elements |-> [protagonistAttitude |->
                             extractProtagonistAttitude(memory, Undefined),
                           coreRelationships |-> extractCoreRelationships(memory, Undefined),
                           emotionalTheme |-> extractEmotionalTheme(memory),
                           genreVsEmotion |-> extractGenreVsEmotion(memory),
                           endingAftertaste |-> extractEndingAftertaste(memory)],
             checklist |-> getSynopsisChecklist(memory),
             formats |-> [full |-> As("full"), brief |-> As("brief"), pitch |-> As("pitch")]])

----------------------------------------------------------------------------
\* validateMemory(memory).  A message is kept as its template and the values put in it.

\* new Set(Object.keys(memory.characters))
charKeys(memory) == {e.key : e \in Range(memory.characters)}

NoTimestamp == -1   \* a timestamp field that is empty

validateErrors(memory) ==
  LET keys == charKeys(memory) IN
  When(memory.version # "1.0", [msg |-> "Unsupported version", version |-> memory.version])
  \o When(memory.project.name = "", [msg |-> "Project name is empty"])
  \o When(memory.project.created = NoTimestamp,
          [msg |-> "Project created timestamp is missing"])
  \o FlatMap(memory.characters, LAMBDA e :
        When(e.val.id # e.key,
             [msg |-> "Character key does not match character.id",
              key |-> e.key, id |-> e.val.id])
        \o When(e.val.name = "", [msg |-> "Character has no name", key |-> e.key]))
  \o FlatMap(memory.relationships, LAMBDA rel :
        When(rel.from \notin keys,
             [msg |-> "Relationship references non-existent character",
              id |-> rel.id, name |-> rel.from])
        \o When(rel.to \notin keys,
                [msg |-> "Relationship references non-existent character",
                 id |-> rel.id, name |-> rel.to]))
  \o FlatMap([i \in DOMAIN memory.scenes |-> i], LAMBDA i :
        When(\E j \in 1..(i - 1) : memory.scenes[j].id = memory.scenes[i].id,
             [msg |-> "Duplicate scene ID", id |-> memory.scenes[i].id]))

validateWarnings(memory) ==
  LET keys == charKeys(memory) IN
  When(memory.project.genre = "", [msg |-> "Project genre is empty"])
  \o FlatMap(memory.characters, LAMBDA e :
        FlatMap(e.val.timeline, LAMBDA ep :
          When(ep.intensity < 1 \/ ep.intensity > 5,
               [msg |-> "emotion point intensity", name |-> e.val.name,
                intensity |-> ep.intensity])
          \o When(/\ Get(ep, "sceneId") # Undefined
                  /\ \A sc \in Range(memory.scenes) : sc.id # Get(ep, "sceneId"),
                  [msg |-> "timeline references non-existent scene",
                   name |-> e.val.name, sceneId |-> Get(ep, "sceneId")])))
  \o FlatMap(memory.relationships, LAMBDA rel :
        When(rel.from = rel.to,
             [msg |-> "Relationship is self-referential", id |-> rel.id, name |-> rel.from]))
  \o FlatMap(memory.scenes, LAMBDA scene :
        FlatMap(scene.characters, LAMBDA charId :
          When(charId \notin keys,
               [msg |-> "Scene references non-existent character",
                title |-> scene.title, name |-> charId]))
        \o When(Len(scene.cuts) = 0, [msg |-> "Scene has no cuts", title |-> scene.title]))
  \o FlatMap(memory.themes, LAMBDA theme :
        FlatMap(theme.relatedCharacters, LAMBDA charId :
          When(charId \notin keys,
               [msg |-> "Theme references non-existent character",
                theme |-> theme.name, name |-> charId]))
        \o FlatMap(theme.relatedScenes, LAMBDA sid :
             When(\A sc \in Range(memory.scenes) : sc.id # sid,
                  [msg |-> "Theme references non-existent scene",
                   theme |-> theme.name, sceneId |-> sid])))

validateMemory(memory) ==
  [valid |-> Len(validateErrors(memory)) = 0,
   errors |-> validateErrors(memory),
   warnings |-> validateWarnings(memory)]

----------------------------------------------------------------------------
\* Calls.  A public operation is one step: it loads, computes and saves.  Time passes
\* between calls: dt = 0 when a save falls in the millisecond of the save before it.

Idle == [p \in Procs |-> [pc |-> "idle"]]

Call(name, args) == [name |-> name, args |-> args]

\* The environment of a run: the faults the file system may raise, the time that may
\* pass between two saves, and the number of saves the run may make.
Env(fs, dts, bound) == [faults |-> fs, dts |-> dts, bound |-> bound]

\* every operation in its own millisecond, on a file system that does not fail
Calm == Env(NoFaults, {1}, MaxOps)

\* the call o, made at time clock + dt, with result r.  The clock is read by the
\* operations that save; dt = 0 is a save in the millisecond of the save before it.
Run(o, r, dt, env) ==
  /\ r.saves > 0 => /\ nsaves < env.bound
                    /\ dt = 0 => nsame < MaxSameMs
  /\ disk' = r.disk
  /\ ret' = r.ret
  /\ op' = o
  /\ lastSaves' = r.saves
  /\ clock' = IF r.saves > 0 THEN clock + dt ELSE clock
  /\ nsaves' = nsaves + r.saves
  /\ nsame' = IF r.saves > 0 /\ dt = 0 THEN nsame + 1 ELSE nsame
  /\ UNCHANGED proc

\* the store initMemory("p", "g") leaves on an empty project directory at time 0
InitStore ==
  /\ disk = initMemory(EmptyDisk, "p", "g", 0, "none").disk
  /\ clock = 0
  /\ nsaves = 1
  /\ nsame = 0
  /\ op = Call("initMemory", <<"p", "g">>)
  /\ ret = initMemory(EmptyDisk, "p", "g", 0, "none").ret
  /\ lastSaves = 1
  /\ proc = Idle

Stored == loadMemory(disk)
StoredScenes == IF Stored = Null THEN <<>> ELSE Stored.scenes

NoOptions == [chapter |-> Undefined, characters |-> <<>>, emotionTags |-> <<>>]

AddScene(env) ==
  /\ Len(StoredScenes) < MaxScenes
  /\ \E id \in FreshSceneIds(disk), title \in Titles, f \in env.faults, dt \in env.dts :
       Run(Call("addScene", <<title, NoOptions>>),
           addScene(disk, id, title, NoOptions, clock + dt, f), dt, env)

\* the ids a caller may name: those stored, and one that is not
NameableSceneIds == {StoredScenes[i].id : i \in DOMAIN StoredScenes} \cup {UnknownId}

RemoveScene(env) ==
  \E id \in NameableSceneIds, f \in env.faults, dt \in env.dts :
    Run(Call("removeScene", <<id>>), removeScene(disk, id, clock + dt, f), dt, env)

ReorderScenes(env) ==
  \E ids \in SeqsUpTo(NameableSceneIds, MaxScenes),
     f \in env.faults, dt \in env.dts :
    Run(Call("reorderScenes", <<ids>>), reorderScenes(disk, ids, clock + dt, f), dt, env)

NextSceneOrder ==
  \/ AddScene(Calm)
  \/ RemoveScene(Calm)
  \/ ReorderScenes(Calm)

SpecSceneOrder == InitStore /\ [][NextSceneOrder]_vars

SceneOrders == {StoredScenes[i].order : i \in DOMAIN StoredScenes}

\* C1: the order values of the stored scenes are exactly 0..n-1, each used once
C1_DenseSceneOrder ==
  /\ SceneOrders = 0..(Len(StoredScenes) - 1)
  /\ \A i, j \in DOMAIN StoredScenes :
       StoredScenes[i].order = StoredScenes[j].order => i = j

\* whether ids holds every id of scenes exactly once
IsPermutationOfIds(ids, scenes) ==
  /\ Len(ids) = Len(scenes)
  /\ Range(ids) = {scenes[i].id : i \in DOMAIN scenes}
  /\ \A i, j \in DOMAIN ids : ids[i] = ids[j] => i = j

\* C6: reorderScenes(sceneIds) with an argument that is not a permutation of the
\* current scene ids returns false and leaves the stored scenes as they were
C6_ReorderScenesOnlyPermutation ==
  [][(op'.name = "reorderScenes" /\ ~IsPermutationOfIds(op'.args[1], StoredScenes))
       => (ret' = FALSE /\ StoredScenes' = StoredScenes)]_vars

----------------------------------------------------------------------------
\* Cuts

CutInputs == [type : {"dialogue"}, content : CutContents, character : {Undefined},
              emotionTag : {Undefined}]

AddCut(env) ==
  \E id \in NameableSceneIds, cut \in CutInputs, f \in env.faults, dt \in env.dts :
    /\ \A i \in DOMAIN StoredScenes :
         StoredScenes[i].id = id => Len(StoredScenes[i].cuts) < MaxCuts
    /\ Run(Call("addCut", <<id, cut>>), addCut(disk, id, cut, clock + dt, f), dt, env)

RemoveCut(env) ==
  \E id \in NameableSceneIds, cutOrder \in 0..MaxCuts, f \in env.faults, dt \in env.dts :
    Run(Call("removeCut", <<id, cutOrder>>),
        removeCut(disk, id, cutOrder, clock + dt, f), dt, env)

CutsOf(id) ==
  LET i == FindIndex(StoredScenes, LAMBDA s : s.id = id)
  IN IF i = 0 THEN <<>> ELSE StoredScenes[i].cuts

\* the arguments tried on a scene of m cuts: every sequence of m indices among 0..m-1
\* (the permutations, and those that repeat an index), one with an index out of
\* range, one too short and one too long
NewOrders(m) ==
  [1..m -> 0..(m - 1)]
    \cup {[i \in 1..m |-> i]}
    \cup {[i \in 1..(m + 1) |-> i - 1]}
    \cup (IF m > 0 THEN {[i \in 1..(m - 1) |-> i - 1]} ELSE {})

ReorderCuts(env) ==
  \E id \in NameableSceneIds, f \in env.faults, dt \in env.dts :
    \E newOrder \in NewOrders(Len(CutsOf(id))) :
      Run(Call("reorderCuts", <<id, newOrder>>),
          reorderCuts(disk, id, newOrder, clock + dt, f), dt, env)

NextCuts ==
  \/ AddScene(Calm)
  \/ AddCut(Calm)
  \/ RemoveCut(Calm)
  \/ ReorderCuts(Calm)

SpecCuts == InitStore /\ [][NextCuts]_vars

\* C2: in every scene the cut at array position i has order i, so the order values
\* of its m cuts are exactly 0..m-1, each used once
C2_DenseCutOrder ==
  \A k \in DOMAIN StoredScenes :
    \A i \in DOMAIN StoredScenes[k].cuts : StoredScenes[k].cuts[i].order = i - 1

\* a cut was removed from the front of a scene that keeps another cut
C2_Witness ==
  /\ op.name = "removeCut" /\ op.args[2] = 0 /\ ret = TRUE
  /\ \E k \in DOMAIN StoredScenes : Len(StoredScenes[k].cuts) >= 1

----------------------------------------------------------------------------
\* Emotion tags

AddEmotionTag(env) ==
  \E id \in NameableSceneIds, tag \in EmotionTags, f \in env.faults, dt \in env.dts :
    Run(Call("addEmotionTag", <<id, tag>>),
        addEmotionTag(disk, id, tag, clock + dt, f), dt, env)

RemoveEmotionTag(env) ==
  \E id \in NameableSceneIds, tag \in EmotionTags, f \in env.faults, dt \in env.dts :
    Run(Call("removeEmotionTag", <<id, tag>>),
        removeEmotionTag(disk, id, tag, clock + dt, f), dt, env)

NextTags ==
  \/ AddScene(Calm)
  \/ AddEmotionTag(Calm)
  \/ RemoveEmotionTag(Calm)

SpecTags == InitStore /\ [][NextTags]_vars

SceneExists(id) == \E i \in DOMAIN StoredScenes : StoredScenes[i].id = id

\* the emotionTags of the first stored scene with this id
TagsOf(id) ==
  LET i == FindIndex(StoredScenes, LAMBDA s : s.id = id)
  IN IF i = 0 THEN <<>> ELSE StoredScenes[i].emotionTags

NoRepeatedTag ==
  \A k \in DOMAIN StoredScenes :
    \A i, j \in DOMAIN StoredScenes[k].emotionTags :
      StoredScenes[k].emotionTags[i] = StoredScenes[k].emotionTags[j] => i = j

\* C10: on an existing scene, addEmotionTag of a tag already present and
\* removeEmotionTag of a tag not present return true and leave the whole store
\* (memory.json, the temp file and the backups) unchanged; no scene holds a tag twice
C10_EmotionTagIdempotent ==
  /\ []NoRepeatedTag
  /\ [][/\ (/\ op'.name = "addEmotionTag"
            /\ SceneExists(op'.args[1])
            /\ op'.args[2] \in Range(TagsOf(op'.args[1])))
           => (ret' = TRUE /\ disk' = disk)
        /\ (/\ op'.name = "removeEmotionTag"
            /\ SceneExists(op'.args[1])
            /\ op'.args[2] \notin Range(TagsOf(op'.args[1])))
           => (ret' = TRUE /\ disk' = disk)]_vars

\* a tag that is present was added again, to a scene holding both tags
C10_Witness ==
  /\ op.name = "addEmotionTag" /\ ret = TRUE
  /\ SceneExists(op.args[1])
  /\ op.args[2] \in Range(TagsOf(op.args[1]))
  /\ Len(TagsOf(op.args[1])) = 2
  /\ lastSaves = 0

----------------------------------------------------------------------------
\* Characters and aliases

StoredCharacters == IF Stored = Null THEN <<>> ELSE Stored.characters

NoCharOptions == [arc |-> ""]

AddCharacter(env) ==
  \E id \in FreshCharIds(disk), name \in Names, f \in env.faults, dt \in env.dts :
    Run(Call("addCharacter", <<name, NoCharOptions>>),
        addCharacter(disk, id, name, NoCharOptions, clock + dt, f), dt, env)

AddAlias(env) ==
  \E who \in Names \cup Aliases, alias \in Aliases, f \in env.faults, dt \in env.dts :
    Run(Call("addAlias", <<who, alias>>), addAlias(disk, who, alias, clock + dt, f), dt, env)

RemoveAlias(env) ==
  \E who \in Names \cup Aliases, alias \in Aliases, f \in env.faults, dt \in env.dts :
    Run(Call("removeAlias", <<who, alias>>),
        removeAlias(disk, who, alias, clock + dt, f), dt, env)

NextCharacters ==
  \/ AddCharacter(Calm)
  \/ AddAlias(Calm)
  \/ RemoveAlias(Calm)

SpecCharacters == InitStore /\ [][NextCharacters]_vars

CharacterExists(who) == findCharacter(Stored, who) # 0

\* the aliases of the character `who` resolves to
AliasesOf(who) ==
  IF CharacterExists(who) THEN StoredCharacters[findCharacter(Stored, who)].val.aliases
  ELSE <<>>

\* C9: for an existing character, addAlias of an alias already present and removeAlias
\* of an alias not present both return true and leave the alias list unchanged
C9_AliasIdempotent ==
  [][/\ (/\ op'.name = "addAlias"
         /\ CharacterExists(op'.args[1])
         /\ op'.args[2] \in Range(AliasesOf(op'.args[1])))
        => (ret' = TRUE /\ StoredCharacters' = StoredCharacters)
     /\ (/\ op'.name = "removeAlias"
         /\ CharacterExists(op'.args[1])
         /\ op'.args[2] \notin Range(AliasesOf(op'.args[1])))
        => (ret' = TRUE /\ StoredCharacters' = StoredCharacters)]_vars

----------------------------------------------------------------------------
\* Relationships

StoredRelationships == IF Stored = Null THEN <<>> ELSE Stored.relationships

RelUpdates == {[type |-> "complex"], [notes |-> "n1", dynamic |-> "growing"]}

AddRelationship(env) ==
  \E id \in FreshRelIds(disk), a \in Names, b \in Names, type \in {"romantic"},
     f \in env.faults, dt \in env.dts :
    Run(Call("addRelationship", <<a, b, type>>),
        addRelationship(disk, id, a, b, type, clock + dt, f), dt, env)

UpdateRelationship(env) ==
  \E a \in Names, b \in Names, updates \in RelUpdates, f \in env.faults, dt \in env.dts :
    Run(Call("updateRelationship", <<a, b, updates>>),
        updateRelationship(disk, a, b, updates, clock + dt, f), dt, env)

RemoveRelationship(env) ==
  \E a \in Names, b \in Names, f \in env.faults, dt \in env.dts :
    Run(Call("removeRelationship", <<a, b>>),
        removeRelationship(disk, a, b, clock + dt, f), dt, env)

AddRelationshipEvent(env) ==
  \E a \in Names, b \in Names, change \in {"met", "quarrel"},
     f \in env.faults, dt \in env.dts :
    Run(Call("addRelationshipEvent", <<a, b, change, "why">>),
        addRelationshipEvent(disk, a, b, change, "why", clock + dt, f), dt, env)

NextRelationships ==
  \/ AddRelationship(Calm)
  \/ UpdateRelationship(Calm)
  \/ RemoveRelationship(Calm)
  \/ AddRelationshipEvent(Calm)

SpecRelationships == InitStore /\ [][NextRelationships]_vars

UniquePairs ==
  \A i, j \in DOMAIN StoredRelationships :
    Between(StoredRelationships[i], StoredRelationships[j].from, StoredRelationships[j].to)
      => i = j

\* C3: at most one stored relationship exists for any unordered pair; addRelationship
\* for a pair that is stored in either orientation returns null and leaves the list
\* unchanged, so addRelationship(b, a) right after a successful addRelationship(a, b)
\* does
C3_OneRelationshipPerPair ==
  /\ []UniquePairs
  /\ [][op'.name = "addRelationship" =>
          /\ (\E i \in DOMAIN StoredRelationships :
                Between(StoredRelationships[i], op'.args[1], op'.args[2]))
               => (ret' = Null /\ StoredRelationships' = StoredRelationships)
          /\ (/\ op.name = "addRelationship"
              /\ ret # Null
              /\ op'.args[1] = op.args[2]
              /\ op'.args[2] = op.args[1])
               => (ret' = Null /\ StoredRelationships' = StoredRelationships)]_vars

\* addRelationship(b, a) was refused right after addRelationship(a, b) was stored
C3_Witness ==
  /\ op.name = "addRelationship" /\ ret = Null
  /\ op.args[1] # op.args[2]
  /\ \E i \in DOMAIN StoredRelationships :
       /\ StoredRelationships[i].from = op.args[2]
       /\ StoredRelationships[i].to = op.args[1]
  /\ Len(StoredRelationships) = 2

\* C7: when addRelationshipEvent returns an event, the timeline read back from the
\* store holds it, and a stored evolution list only grows at its end
C7_EventPersisted ==
  [][/\ (op'.name = "addRelationshipEvent" /\ ret' # Null)
          => ret' \in Range(getRelationshipTimeline(disk', op'.args[1], op'.args[2]))
     /\ \A i \in DOMAIN StoredRelationships, j \in DOMAIN StoredRelationships' :
          StoredRelationships'[j].id = StoredRelationships[i].id
            => /\ Len(StoredRelationships[i].evolution)
                    <= Len(StoredRelationships'[j].evolution)
               /\ SubSeq(StoredRelationships'[j].evolution, 1,
                         Len(StoredRelationships[i].evolution))
                    = StoredRelationships[i].evolution]_vars

\* C8: when updateRelationship returns a relationship, the stored relationship of the
\* pair carries the updated fields, and its id, from, to and created are unchanged
C8_UpdatePersisted ==
  [][(op'.name = "updateRelationship" /\ ret' # Null) =>
       LET before == getRelationship(disk, op'.args[1], op'.args[2])
           after == getRelationship(disk', op'.args[1], op'.args[2])
       IN /\ after # UndefinedRecord
          /\ \A k \in DOMAIN op'.args[3] : Get(after, k) = op'.args[3][k]
          /\ after.id = before.id /\ after.from = before.from
          /\ after.to = before.to /\ after.created = before.created]_vars

----------------------------------------------------------------------------
\* Backup retention: the stored document is saved again and again

\* saves that may share a millisecond, on a file system that does not fail
Busy == Env(NoFaults, 0..1, MaxSaves)

SaveLoaded(env) ==
  /\ Stored # Null
  /\ \E f \in env.faults, dt \in env.dts :
       Run(Call("saveMemory", <<Stored>>),
           saveMemoryCall(disk, Stored, clock + dt, f), dt, env)

NextBackups == SaveLoaded(Busy)

SpecBackups == InitStore /\ [][NextBackups]_vars

\* C5: after more than MAX_BACKUPS saves exactly MAX_BACKUPS backup files remain, the
\* most recent ones; the backup directory never holds more than MAX_BACKUPS
C5_BackupRetention ==
  /\ nsaves > MAX_BACKUPS => Cardinality(disk.backups) = MAX_BACKUPS
  /\ Cardinality(disk.backups) <= MAX_BACKUPS
  /\ \A b \in disk.backups : b.ts > clock - MAX_BACKUPS

----------------------------------------------------------------------------
\* saveMemory statement by statement, by a process that may be killed at any point

InProgress == {"dir", "backup", "open", "write", "rename"}

Goto(p, pc) == proc' = [proc EXCEPT ![p].pc = pc]

Return(p, value) ==
  /\ Goto(p, "idle")
  /\ ret' = value

SaveInputs == {NewMemory(n, "g", 0) : n \in {"p", "q"}}

\* the call; a killed process is replaced by a new one
SaveCall(p) ==
  /\ proc[p].pc \in {"idle", "killed"}
  /\ nsaves < MaxOps
  /\ \E memory \in SaveInputs :
       /\ proc' = [proc EXCEPT ![p] = [pc |-> "dir", memory |-> memory, before |-> disk.file]]
       /\ op' = Call("saveMemory", <<memory>>)
  /\ nsaves' = nsaves + 1
  /\ UNCHANGED <<disk, clock, nsame, ret, lastSaves>>

SaveDir(p) ==
  /\ proc[p].pc = "dir"
  /\ \E f \in Faults :
       /\ disk' = saveEnsureDir(disk, f).d
       /\ IF saveEnsureDir(disk, f).ok THEN Goto(p, "backup") /\ UNCHANGED ret
          ELSE Return(p, FALSE)
  /\ UNCHANGED <<clock, nsaves, nsame, op, lastSaves>>

SaveBackup(p) ==
  /\ proc[p].pc = "backup"
  /\ \E f \in Faults : disk' = saveBackupExisting(disk, clock, f)
  /\ Goto(p, "open")
  /\ UNCHANGED <<clock, nsaves, nsame, op, ret, lastSaves>>

\* memory.project.updated = now(); writeFileSync opens its target
SaveOpen(p) ==
  /\ proc[p].pc = "open"
  /\ disk' = saveOpen(disk)
  /\ proc' = [proc EXCEPT ![p].pc = "write", ![p].memory = saveStamp(@, clock)]
  /\ UNCHANGED <<clock, nsaves, nsame, op, ret, lastSaves>>

SaveWrite(p) ==
  /\ proc[p].pc = "write"
  /\ \E f \in Faults :
       /\ disk' = saveWrite(disk, proc[p].memory, f).d
       /\ IF saveWrite(disk, proc[p].memory, f).ok THEN Goto(p, "rename") /\ UNCHANGED ret
          ELSE Return(p, FALSE)
  /\ UNCHANGED <<clock, nsaves, nsame, op, lastSaves>>

SaveRename(p) ==
  /\ proc[p].pc = "rename"
  /\ \E f \in Faults :
       /\ disk' = saveRename(disk, f).d
       /\ Return(p, saveRename(disk, f).ok)
  /\ UNCHANGED <<clock, nsaves, nsame, op, lastSaves>>

Kill(p) ==
  /\ proc[p].pc \in InProgress
  /\ Goto(p, "killed")
  /\ UNCHANGED <<disk, clock, nsaves, nsame, op, ret, lastSaves>>

Tick ==
  /\ clock < MaxTicks
  /\ clock' = clock + 1
  /\ UNCHANGED <<disk, nsaves, nsame, op, ret, lastSaves, proc>>

InitEmpty ==
  /\ disk = EmptyDisk
  /\ clock = 0
  /\ nsaves = 0
  /\ nsame = 0
  /\ op = Call("none", <<>>)
  /\ ret = Null
  /\ lastSaves = 0
  /\ proc = Idle

NextAtomicSave ==
  \/ SaveCall(1)
  \/ SaveDir(1)
  \/ SaveBackup(1)
  \/ SaveOpen(1)
  \/ SaveWrite(1)
  \/ SaveRename(1)
  \/ Kill(1)
  \/ Tick

SpecAtomicSave == InitEmpty /\ [][NextAtomicSave]_vars

\* C4: memory.json is absent or holds one complete document, and while a saveMemory
\* call has not renamed (it is under way, or was killed before, during or after the
\* temp write) memory.json is what it was before the call
C4_AtomicSave ==
  /\ disk.file.st \in {"absent", "json"}
  /\ \A p \in Procs :
       proc[p].pc \in InProgress \cup {"killed"} => disk.file = proc[p].before

\* the process was killed with the temp file complete, over an older memory.json
C4_Witness ==
  /\ proc[1].pc = "killed"
  /\ disk.tmp.st = "json"
  /\ disk.file.st = "json"
  /\ disk.tmp.doc.project.name # disk.file.doc.project.name

----------------------------------------------------------------------------
\* Validation of the stored document

RemoveCharacter(env) ==
  \E who \in Names \cup Aliases, f \in env.faults, dt \in env.dts :
    Run(Call("removeCharacter", <<who>>), removeCharacter(disk, who, clock + dt, f), dt, env)

\* a relationship between two characters that exist
AddRelationshipOfCharacters(env) ==
  \E id \in FreshRelIds(disk), a \in Names, b \in Names, f \in env.faults, dt \in env.dts :
    /\ Stored # Null
    /\ {a, b} \subseteq charKeys(Stored)
    /\ Run(Call("addRelationship", <<a, b, "romantic">>),
           addRelationship(disk, id, a, b, "romantic", clock + dt, f), dt, env)

\* validateMemory(loadMemory())
ValidateMemory(env) ==
  /\ Stored # Null
  /\ Run(Call("validateMemory", <<>>), NoSave(disk, validateMemory(Stored)), 1, env)

NextValidate ==
  \/ AddCharacter(Calm)
  \/ RemoveCharacter(Calm)
  \/ AddRelationshipOfCharacters(Calm)
  \/ ValidateMemory(Calm)

SpecValidate == InitStore /\ [][NextValidate]_vars

\* the (relationship id, name) pairs of the stored document whose name is no character
Dangling ==
  {<<r.id, n>> : r \in Range(StoredRelationships), n \in Names}
    \cap {x \in RelIds \X Names :
            /\ x[2] \notin charKeys(Stored)
            /\ \E r \in Range(StoredRelationships) : r.id = x[1] /\ x[2] \in {r.from, r.to}}

\* the entries of errors that name the relationship id and the character name
EntriesNaming(errors, id, name) ==
  {i \in DOMAIN errors :
     errors[i] = [msg |-> "Relationship references non-existent character",
                  id |-> id, name |-> name]}

\* C11: validateMemory of a document in which a relationship references a deleted
\* character reports valid = false and exactly one error entry naming that
\* relationship's id and the missing character's name
C11_DanglingReported ==
  (op.name = "validateMemory" /\ Dangling # {}) =>
     /\ ret.valid = FALSE
     /\ \A x \in Dangling : Cardinality(EntriesNaming(ret.errors, x[1], x[2])) = 1

\* validateMemory ran on a document whose relationship lost one of its two characters
C11_Witness ==
  /\ op.name = "validateMemory"
  /\ \E r \in Range(StoredRelationships) :
       r.from # r.to /\ r.from \notin charKeys(Stored) /\ r.to \in charKeys(Stored)
  /\ ret.valid = FALSE

----------------------------------------------------------------------------
\* Saving and loading whole documents, on a file system whose calls may fail

\* documents as the operations build them: optional fields set and not set
SampleCut ==
  [order |-> 0, type |-> "dialogue", content |-> "k1", character |-> Undefined,
   emotionTag |-> "e1"]

SampleScene ==
  [id |-> "s1", title |-> "t1", chapter |-> Undefined, characters |-> <<"A">>,
   emotionTags |-> <<"e1">>, cuts |-> <<SampleCut>>, narrationTone |-> "", notes |-> "",
   order |-> 0, created |-> 0]

SampleEvent == [timestamp |-> 0, change |-> "met", catalyst |-> "why", sceneId |-> Undefined]

SampleRelationship(notes) ==
  [id |-> "rel1", from |-> "A", to |-> "B", type |-> "romantic", dynamic |-> "stable",
   speechLevel |-> Undefined, notes |-> notes, evolution |-> <<SampleEvent>>, created |-> 0]

SampleCharacter ==
  [id |-> "char1", name |-> "A", aliases |-> <<"x">>, arc |-> "", tone |-> "",
   speechLevel |-> "banmal", attitude |-> "", keywords |-> <<>>,
   timeline |-> <<[timestamp |-> 0, emotion |-> "e1", trigger |-> "why", intensity |-> 3,
                   sceneId |-> Undefined]>>,
   notes |-> "", created |-> 0, updated |-> 0]

Documents ==
  {NewMemory("p", "g", 0), NewMemory("q", "g", 0)}
    \cup {[NewMemory("p", "g", 0) EXCEPT
             !.characters = <<[key |-> "A", val |-> SampleCharacter]>>,
             !.relationships = <<SampleRelationship(notes)>>,
             !.scenes = <<SampleScene>>] : notes \in {Undefined, "n1"}}
    \cup {[NewMemory("p", "g", 0) EXCEPT
             !.characters = <<[key |-> "A", val |-> SampleCharacter],
                              [key |-> "B", val |-> [SampleCharacter EXCEPT
                                 !.id = "char2", !.name = "B", !.aliases = <<>>,
                                 !.arc = "a1", !.timeline = <<>>]]>>,
             !.relationships = <<SampleRelationship("n1")>>,
             !.scenes = <<[SampleScene EXCEPT !.id = "s2", !.title = "t2", !.order = 1,
                                              !.chapter = "c1", !.emotionTags = <<"e2">>],
                          SampleScene>>]}

\* any call may fail
Faulty == Env(Faults, {1}, MaxDocSaves)

\* saveMemory(D) by the user of the module; f is the call of the file system that fails
SaveDocument(env) ==
  \E D \in Documents, f \in env.faults, dt \in env.dts :
    Run([name |-> "saveMemory", args |-> <<D>>, fault |-> f],
        saveMemoryCall(disk, D, clock + dt, f), dt, env)

LoadMemory(env) ==
  Run(Call("loadMemory", <<>>), NoSave(disk, loadMemory(disk)), 1, env)

NextSaveLoad ==
  \/ SaveDocument(Faulty)
  \/ LoadMemory(Faulty)

SpecSaveLoad == InitEmpty /\ [][NextSaveLoad]_vars

\* equality field for field, a key that is missing reading as undefined
SameFields(a, b, keys) == \A k \in keys : Get(a, k) = Get(b, k)

SameSeq(s, t, Same(_, _)) == Len(s) = Len(t) /\ \A i \in DOMAIN s : Same(s[i], t[i])

SameCut(a, b) == SameFields(a, b, {"order", "type", "content", "character", "emotionTag"})

SameScene(a, b) ==
  /\ SameFields(a, b, {"id", "title", "chapter", "order", "characters", "emotionTags",
                       "narrationTone", "notes", "created"})
  /\ SameSeq(a.cuts, b.cuts, SameCut)

SameEvent(a, b) == SameFields(a, b, {"timestamp", "sceneId", "change", "catalyst"})

SameRelationship(a, b) ==
  /\ SameFields(a, b, {"id", "from", "to", "type", "dynamic", "speechLevel", "notes",
                       "created"})
  /\ SameSeq(a.evolution, b.evolution, SameEvent)

SamePoint(a, b) ==
  SameFields(a, b, {"timestamp", "sceneId", "emotion", "trigger", "intensity"})

SameCharacter(a, b) ==
  /\ a.key = b.key
  /\ SameFields(a.val, b.val, {"id", "name", "aliases", "arc", "tone", "speechLevel",
                               "keywords", "attitude", "notes", "created", "updated"})
  /\ SameSeq(a.val.timeline, b.val.timeline, SamePoint)

SameDocument(a, b) ==
  /\ a.version = b.version /\ a.project = b.project /\ a.world = b.world
  /\ a.themes = b.themes /\ a.synopsis = b.synopsis
  /\ SameSeq(a.characters, b.characters, SameCharacter)
  /\ SameSeq(a.relationships, b.relationships, SameRelationship)
  /\ SameSeq(a.scenes, b.scenes, SameScene)

\* C12: after saveMemory(D) returned true, loadMemory() returns a document equal to D
\* field for field, but for project.updated, which holds the time of the save
C12_RoundTrip ==
  [][(op'.name = "saveMemory" /\ ret' = TRUE) =>
       LET loaded == loadMemory(disk') IN
       /\ loaded # Null
       /\ loaded.project.updated = clock'
       /\ SameDocument(loaded, [op'.args[1] EXCEPT !.project.updated = clock'])]_vars

\* loadMemory returned a saved document whose relationship has no notes and whose
\* scene has no chapter: the keys are gone from the text
C12_Witness ==
  /\ op.name = "loadMemory"
  /\ ret # Null
  /\ Len(ret.relationships) = 1
  /\ "notes" \notin DOMAIN ret.relationships[1]
  /\ "chapter" \notin DOMAIN ret.scenes[1]
  /\ ret.project.updated = clock

\* the call of saveMemory's own try block that fails in this call, if any
SaveFails(d, f) == f \in {"writeTmp", "rename"} \/ (f = "mkdir" /\ ~d.memDir)

\* C13: when the directory creation, the temp write or the rename fails, saveMemory
\* returns false (it never throws), and whenever it returns false memory.json holds
\* what it held before the call
C13_FailedSaveLeavesFile ==
  [][op'.name = "saveMemory" =>
       /\ ret' \in BOOLEAN
       /\ SaveFails(disk, op'.fault) => ret' = FALSE
       /\ ret' = FALSE => disk'.file = disk.file]_vars

\* the rename failed over an existing memory.json, the temp file holding another
\* document
C13_Witness ==
  /\ op.name = "saveMemory" /\ op.fault = "rename" /\ ret = FALSE
  /\ disk.file.st = "json" /\ disk.tmp.st = "json"
  /\ disk.file.doc.project.name # disk.tmp.doc.project.name

\* the backup of this call cannot be written
BackupFails(d, f) == f = "writeBackup" \/ (f = "mkdirBackup" /\ ~d.backDir)

\* C14 as claimed: every saveMemory call that finds a store file leaves a backup file
\* holding what memory.json held before the call
C14_BackupOfEveryOverwrite ==
  [][(op'.name = "saveMemory" /\ disk.file.st # "absent") =>
       \E b \in disk'.backups : b.json = disk.file]_vars

\* C14 amended: every saveMemory call that finds a parsable store file leaves, unless
\* making the backup directory or writing the backup file fails, a backup file named
\* by the time of the call that holds what memory.json held before the call
C14_BackupUnlessItFails ==
  [][(op'.name = "saveMemory" /\ disk.file.st = "json" /\ ~BackupFails(disk, op'.fault)) =>
       \E b \in disk'.backups : b.ts = clock' /\ b.json = disk.file]_vars

\* a document was overwritten by another and is in the newest of two backups
C14_Witness ==
  /\ op.name = "saveMemory" /\ ret = TRUE
  /\ Cardinality(disk.backups) = 2
  /\ \E b \in disk.backups :
       b.ts = clock /\ b.json.doc.project.name # disk.file.doc.project.name

----------------------------------------------------------------------------
\* A store file that is not there: before the first save, or deleted from outside

\* no call fails
Reliable == Env(NoFaults, {1}, MaxDocSaves)

\* memory.json is deleted by something other than this program
DeleteStoreFile ==
  /\ disk.file.st # "absent"
  /\ disk' = [disk EXCEPT !.file = NoFile]
  /\ op' = Call("delete memory.json", <<>>)
  /\ UNCHANGED <<clock, nsaves, nsame, ret, lastSaves, proc>>

NextFreshStore ==
  \/ SaveDocument(Reliable)
  \/ LoadMemory(Reliable)
  \/ DeleteStoreFile

SpecFreshStore == InitEmpty /\ [][NextFreshStore]_vars

\* C15: with no store file loadMemory returns null, and a saveMemory(newDoc) that
\* follows returns true, creates memory.json holding newDoc and no backup file
C15_FreshStore ==
  /\ []((op.name = "loadMemory" /\ disk.file.st = "absent") => ret = Null)
  /\ [][(/\ op.name = "loadMemory"
         /\ disk.file.st = "absent"
         /\ op'.name = "saveMemory")
        => /\ ret' = TRUE
           /\ disk'.file.st = "json"
           /\ SameDocument(disk'.file.doc, [op'.args[1] EXCEPT !.project.updated = clock'])
           /\ disk'.backups = disk.backups]_vars

\* a save created memory.json and no backup, in a directory that holds a backup of
\* the file that was deleted
C15_Witness ==
  /\ op.name = "saveMemory" /\ ret = TRUE
  /\ disk.file.st = "json"
  /\ disk.backups # {}
  /\ \A b \in disk.backups : b.ts < clock

----------------------------------------------------------------------------
\* A character added twice

\* C16: addCharacter(name) when memory.characters has the key name returns null and
\* leaves the store as it is: the character, memory.json and the backups are
\* untouched and saveMemory is not called
C16_DuplicateCharacter ==
  [][(op'.name = "addCharacter" /\ charIndex(Stored, op'.args[1]) # 0) =>
       /\ ret' = Null
       /\ disk' = disk
       /\ lastSaves' = 0]_vars

\* addCharacter was refused for a name whose character has an alias
C16_Witness ==
  /\ op.name = "addCharacter" /\ ret = Null /\ lastSaves = 0
  /\ charIndex(Stored, op.args[1]) # 0
  /\ Len(StoredCharacters[charIndex(Stored, op.args[1])].val.aliases) > 0

----------------------------------------------------------------------------
\* Looking a relationship up from either side

GetRelationship(env) ==
  \E a \in Names, b \in Names :
    Run(Call("getRelationship", <<a, b>>), NoSave(disk, getRelationship(disk, a, b)), 1, env)

NextRelationshipLookup ==
  \/ AddRelationship(Calm)
  \/ RemoveRelationship(Calm)
  \/ GetRelationship(Calm)

SpecRelationshipLookup == InitStore /\ [][NextRelationshipLookup]_vars

\* C17: getRelationship(a, b) and getRelationship(b, a) return the same record, or
\* both none; once addRelationship(a, b, type) has returned a relationship,
\* getRelationship(b, a) returns that record, with from = a and to = b
C17_LookupEitherWay ==
  /\ [](\A a \in Names, b \in Names :
          getRelationship(disk, a, b) = getRelationship(disk, b, a))
  /\ [][(op'.name = "addRelationship" /\ ret' # Null) =>
          LET found == getRelationship(disk', op'.args[2], op'.args[1]) IN
          /\ found # UndefinedRecord
          /\ found.from = op'.args[1] /\ found.to = op'.args[2]
          /\ SameRelationship(found, ret')]_vars

\* getRelationship(b, a) returned the relationship stored from a to b, a second
\* relationship being stored as well
C17_Witness ==
  /\ op.name = "getRelationship"
  /\ op.args[1] # op.args[2]
  /\ ret # UndefinedRecord
  /\ ret.from = op.args[2] /\ ret.to = op.args[1]
  /\ Len(StoredRelationships) = 2

----------------------------------------------------------------------------
\* Removing one cut of a scene

\* enough calls to build a scene of three cuts and remove one
CutRun == Env(NoFaults, {1}, MaxCutOps)

NextRemoveCut ==
  \/ AddScene(CutRun)
  \/ AddCut(CutRun)
  \/ RemoveCut(CutRun)

SpecRemoveCut == InitStore /\ [][NextRemoveCut]_vars

\* the cuts of the first scene of `scenes` with this id
CutsIn(scenes, id) ==
  LET i == FindIndex(scenes, LAMBDA s : s.id = id)
  IN IF i = 0 THEN <<>> ELSE scenes[i].cuts

\* C18: removeCut(sceneId, k) on a scene of m cuts, 0 <= k < m, returns true and
\* removes the cut whose order is k: the other m-1 cuts stay in their sequence with
\* their contents and carry the orders 0..m-2
C18_RemoveCutKeepsSequence ==
  [][(/\ op'.name = "removeCut"
      /\ SceneExists(op'.args[1])
      /\ op'.args[2] \in 0..(Len(CutsIn(StoredScenes, op'.args[1])) - 1))
     => LET before == CutsIn(StoredScenes, op'.args[1])
            after == CutsIn(StoredScenes', op'.args[1])
            idx == FindIndex(before, LAMBDA c : c.order = op'.args[2])
        IN /\ ret' = TRUE
           /\ idx # 0
           /\ Len(after) = Len(before) - 1
           /\ \A j \in DOMAIN after :
                after[j] = [(IF j < idx THEN before[j] ELSE before[j + 1])
                              EXCEPT !.order = j - 1]]_vars

\* the middle one of three cuts was removed; the two left differ in content
C18_Witness ==
  /\ op.name = "removeCut" /\ op.args[2] = 1 /\ ret = TRUE
  /\ Len(CutsIn(StoredScenes, op.args[1])) = 2
  /\ CutsIn(StoredScenes, op.args[1])[1].content # CutsIn(StoredScenes, op.args[1])[2].content

----------------------------------------------------------------------------
\* Queries of a store that callers fill by saving whole documents.

ListCharacters(env) ==
  Run(Call("listCharacters", <<>>), listCharacters(disk), 1, env)

ResolveCharacter(env) ==
  \E n \in Names \cup {"x"} :
    Run(Call("resolveCharacter", <<n>>), resolveCharacter(disk, n), 1, env)

GetEmotionTimeline(env) ==
  \E n \in Names :
    Run(Call("getEmotionTimeline", <<n>>), getEmotionTimeline(disk, n), 1, env)

ListRelationships(env) ==
  \E n \in Names \cup {Undefined} :
    Run(Call("listRelationships", <<n>>), listRelationships(disk, n), 1, env)

GetRelationshipTimeline(env) ==
  \E a \in Names, b \in Names :
    Run(Call("getRelationshipTimeline", <<a, b>>),
        NoSave(disk, getRelationshipTimeline(disk, a, b)), 1, env)

GetRelationshipWeb(env) ==
  Run(Call("getRelationshipWeb", <<>>), getRelationshipWeb(disk), 1, env)

GetScene(env) ==
  \E id \in SceneIds : Run(Call("getScene", <<id>>), getScene(disk, id), 1, env)

SceneFilters ==
  {[chapter |-> c, character |-> n, emotionTag |-> e] :
     c \in {Undefined, "c1"}, n \in {Undefined, "A"}, e \in {Undefined, "e1"}}

ListScenes(env) ==
  \E options \in SceneFilters :
    Run(Call("listScenes", <<options>>), listScenes(disk, options), 1, env)

GetSceneFlow(env) ==
  Run(Call("getSceneFlow", <<>>), getSceneFlow(disk), 1, env)

GetScenesByEmotion(env) ==
  \E e \in EmotionTags :
    Run(Call("getScenesByEmotion", <<e>>), getScenesByEmotion(disk, e), 1, env)

SearchMemory(env) ==
  /\ Stored # Null
  /\ \E q \in {"", "A", "k1", "e2", "stable", "zz"} :
       Run(Call("searchMemory", <<q>>), NoSave(disk, searchMemory(Stored, q)), 1, env)

SynopsisOptions ==
  {[protagonist |-> n, format |-> fm] :
     n \in {Undefined, "B", "x"}, fm \in {Undefined, "full", "brief", "pitch"}}

GenerateSynopsis(env) ==
  \E options \in SynopsisOptions :
    Run(Call("generateSynopsis", <<options>>), generateSynopsis(disk, options), 1, env)

NextQueries ==
  \/ SaveDocument(Reliable)
  \/ ListCharacters(Reliable)
  \/ ResolveCharacter(Reliable)
  \/ GetEmotionTimeline(Reliable)
  \/ GetRelationship(Reliable)
  \/ ListRelationships(Reliable)
  \/ GetRelationshipTimeline(Reliable)
  \/ GetRelationshipWeb(Reliable)
  \/ GetScene(Reliable)
  \/ ListScenes(Reliable)
  \/ GetSceneFlow(Reliable)
  \/ GetScenesByEmotion(Reliable)
  \/ SearchMemory(Reliable)
  \/ ValidateMemory(Reliable)
  \/ GenerateSynopsis(Reliable)

SpecQueries == InitEmpty /\ [][NextQueries]_vars

QueryNames ==
  {"listCharacters", "resolveCharacter", "getEmotionTimeline", "getRelationship",
   "listRelationships", "getRelationshipTimeline", "getRelationshipWeb", "getScene",
   "listScenes", "getSceneFlow", "getScenesByEmotion", "searchMemory", "validateMemory",
   "generateSynopsis"}

\* C19: no query writes: a call of listCharacters, resolveCharacter, getEmotionTimeline,
\* getRelationship, listRelationships, getRelationshipTimeline, getRelationshipWeb,
\* getScene, listScenes, getSceneFlow, getScenesByEmotion, searchMemory, validateMemory
\* or generateSynopsis leaves the store file and the backup directory as they were
C19_QueriesNeverWrite ==
  [][op'.name \in QueryNames
     => /\ disk'.file = disk.file
        /\ disk'.backups = disk.backups
        /\ disk'.tmp = disk.tmp
        /\ lastSaves' = 0]_vars

\* getSceneFlow answered from a store whose scenes are not kept in the order it
\* returns them in
C19_Witness ==
  /\ op.name = "getSceneFlow"
  /\ Len(ret) = 2
  /\ Len(StoredScenes) = 2
  /\ StoredScenes[1].order > StoredScenes[2].order
  /\ ret[1].title = StoredScenes[2].title
  /\ disk.backups # {}

----------------------------------------------------------------------------
\* Every operation of the four subsystems that loads the store, on a store that may
\* have been deleted or overwritten with something that is not JSON.

LostRun == Env(NoFaults, {1}, MaxLostSaves)

CorruptStoreFile ==
  /\ disk.file.st = "json"
  /\ disk' = [disk EXCEPT !.file = Garbage]
  /\ op' = Call("corrupt memory.json", <<>>)
  /\ UNCHANGED <<clock, nsaves, nsame, ret, lastSaves, proc>>

CharUpdates ==
  {[arc |-> "a1"], [name |-> "B", tone |-> "plain"],
   [id |-> "char9", created |-> 99, updated |-> 99, notes |-> "n1"]}

UpdateCharacter(env) ==
  \E who \in Names, updates \in CharUpdates, f \in env.faults, dt \in env.dts :
    Run(Call("updateCharacter", <<who, updates>>),
        updateCharacter(disk, who, updates, clock + dt, f), dt, env)

AddEmotionPoint(env) ==
  \E who \in Names, options \in {[sceneId |-> Undefined, intensity |-> Undefined]},
     f \in env.faults, dt \in env.dts :
    Run(Call("addEmotionPoint", <<who, "e1", "why", options>>),
        addEmotionPoint(disk, who, "e1", "why", options, clock + dt, f), dt, env)

GetLatestEmotion(env) ==
  \E who \in Names :
    Run(Call("getLatestEmotion", <<who>>), getLatestEmotion(disk, who), 1, env)

GetEmotionArc(env) ==
  \E who \in Names : Run(Call("getEmotionArc", <<who>>), getEmotionArc(disk, who), 1, env)

Dialogues ==
  {[exclamations |-> 2, formal |-> 1, informal |-> 0, casual |-> 0, words |-> {}],
   [exclamations |-> 0, formal |-> 0, informal |-> 1, casual |-> 0, words |-> {"w1"}]}

ValidateDialogue(env) ==
  \E who \in Names, dialogue \in Dialogues :
    Run(Call("validateDialogue", <<who, dialogue>>),
        validateDialogue(disk, who, dialogue), 1, env)

GenerateCharacterProfile(env) ==
  \E who \in Names :
    Run(Call("generateCharacterProfile", <<who>>),
        generateCharacterProfile(disk, who), 1, env)

GetRelationshipArc(env) ==
  \E a \in Names, b \in Names :
    Run(Call("getRelationshipArc", <<a, b>>), getRelationshipArc(disk, a, b), 1, env)

GetCharacterConnections(env) ==
  \E who \in Names :
    Run(Call("getCharacterConnections", <<who>>),
        getCharacterConnections(disk, who), 1, env)

GenerateRelationshipProfile(env) ==
  \E a \in Names, b \in Names :
    Run(Call("generateRelationshipProfile", <<a, b>>),
        generateRelationshipProfile(disk, a, b), 1, env)

GenerateRelationshipMap(env) ==
  Run(Call("generateRelationshipMap", <<>>), generateRelationshipMap(disk), 1, env)

SceneUpdates == {[title |-> "t2"], [id |-> "s3", notes |-> "n1"]}

UpdateScene(env) ==
  \E id \in NameableSceneIds, updates \in SceneUpdates, f \in env.faults, dt \in env.dts :
    Run(Call("updateScene", <<id, updates>>),
        updateScene(disk, id, updates, clock + dt, f), dt, env)

CutUpdates == {[content |-> "k2"], [order |-> 1, emotionTag |-> "e2"]}

UpdateCut(env) ==
  \E id \in NameableSceneIds, cutOrder \in 0..1, updates \in CutUpdates,
     f \in env.faults, dt \in env.dts :
    Run(Call("updateCut", <<id, cutOrder, updates>>),
        updateCut(disk, id, cutOrder, updates, clock + dt, f), dt, env)

GetAllEmotionTags(env) ==
  Run(Call("getAllEmotionTags", <<>>), getAllEmotionTags(disk), 1, env)

GenerateSceneProfile(env) ==
  \E id \in NameableSceneIds :
    Run(Call("generateSceneProfile", <<id>>), generateSceneProfile(disk, id), 1, env)

GenerateSceneList(env) ==
  Run(Call("generateSceneList", <<>>), generateSceneList(disk), 1, env)

SynopsisStates == {[EmptySynopsis EXCEPT !.endingAftertaste = "after"]}

SaveSynopsisState(env) ==
  \E state \in SynopsisStates, f \in env.faults, dt \in env.dts :
    Run(Call("saveSynopsisState", <<state>>),
        saveSynopsisState(disk, state, clock + dt, f), dt, env)

LoadSynopsisState(env) ==
  Run(Call("loadSynopsisState", <<>>), loadSynopsisState(disk), 1, env)

UpdateSynopsisElement(env) ==
  \E element \in {"genreVsRealEmotion"}, f \in env.faults, dt \in env.dts :
    Run(Call("updateSynopsisElement", <<element, "far">>),
        updateSynopsisElement(disk, element, "far", clock + dt, f), dt, env)

ExportSynopsisAsMarkdown(env) ==
  Run(Call("exportSynopsisAsMarkdown", <<>>), exportSynopsisAsMarkdown(disk, clock), 1, env)

ExportSynopsisAsJSON(env) ==
  Run(Call("exportSynopsisAsJSON", <<>>), exportSynopsisAsJSON(disk, clock), 1, env)

CharacterOperations(env) ==
  \/ AddCharacter(env) \/ UpdateCharacter(env) \/ RemoveCharacter(env)
  \/ ListCharacters(env) \/ AddAlias(env) \/ RemoveAlias(env) \/ ResolveCharacter(env)
  \/ AddEmotionPoint(env) \/ GetEmotionTimeline(env) \/ GetLatestEmotion(env)
  \/ GetEmotionArc(env) \/ ValidateDialogue(env) \/ GenerateCharacterProfile(env)

RelationshipOperations(env) ==
  \/ AddRelationship(env) \/ UpdateRelationship(env) \/ RemoveRelationship(env)
  \/ GetRelationship(env) \/ ListRelationships(env) \/ AddRelationshipEvent(env)
  \/ GetRelationshipTimeline(env) \/ GetRelationshipArc(env)
  \/ GetCharacterConnections(env) \/ GetRelationshipWeb(env)
  \/ GenerateRelationshipProfile(env) \/ GenerateRelationshipMap(env)

SceneOperations(env) ==
  \/ AddScene(env) \/ UpdateScene(env) \/ RemoveScene(env) \/ GetScene(env)
  \/ ListScenes(env) \/ AddCut(env) \/ UpdateCut(env) \/ RemoveCut(env)
  \/ ReorderCuts(env) \/ AddEmotionTag(env) \/ RemoveEmotionTag(env)
  \/ GetScenesByEmotion(env) \/ GetAllEmotionTags(env) \/ ReorderScenes(env)
  \/ GetSceneFlow(env) \/ GenerateSceneProfile(env) \/ GenerateSceneList(env)

SynopsisOperations(env) ==
  \/ GenerateSynopsis(env) \/ SaveSynopsisState(env) \/ LoadSynopsisState(env)
  \/ UpdateSynopsisElement(env) \/ ExportSynopsisAsMarkdown(env)
  \/ ExportSynopsisAsJSON(env)

NextLostStore ==
  \/ SaveDocument(LostRun)
  \/ DeleteStoreFile
  \/ CorruptStoreFile
  \/ CharacterOperations(LostRun)
  \/ RelationshipOperations(LostRun)
  \/ SceneOperations(LostRun)
  \/ SynopsisOperations(LostRun)

SpecLostStore == InitEmpty /\ [][NextLostStore]_vars

\* the store file is absent or unparsable
StoreLost == disk.file.st = "absent" \/ JSONparse(disk.file) = Thrown

\* the operations by what they are declared to return
ReturnBoolean ==
  {"removeCharacter", "addAlias", "removeAlias", "addEmotionPoint", "removeRelationship",
   "removeScene", "addCut", "updateCut", "removeCut", "reorderCuts", "addEmotionTag",
   "removeEmotionTag", "reorderScenes", "saveSynopsisState", "updateSynopsisElement"}

ReturnRecord ==
  {"addCharacter", "updateCharacter", "resolveCharacter", "getLatestEmotion",
   "validateDialogue", "addRelationship", "updateRelationship", "getRelationship",
   "addRelationshipEvent", "getRelationshipWeb", "addScene", "updateScene", "getScene",
   "generateSynopsis", "loadSynopsisState", "exportSynopsisAsJSON"}

ReturnArray ==
  {"listCharacters", "getEmotionTimeline", "listRelationships", "getRelationshipTimeline",
   "getCharacterConnections", "listScenes", "getScenesByEmotion", "getAllEmotionTags",
   "getSceneFlow"}

ReturnText ==
  {"getEmotionArc", "generateCharacterProfile", "getRelationshipArc",
   "generateRelationshipProfile", "generateRelationshipMap", "generateSceneProfile",
   "generateSceneList", "exportSynopsisAsMarkdown"}

StoreOperations == ReturnBoolean \cup ReturnRecord \cup ReturnArray \cup ReturnText

\* null, false, undefined or an empty collection (the empty string and the graph
\* without nodes and edges among them)
NoOpValue(name, r) ==
  CASE name \in ReturnBoolean -> r = FALSE
    [] name \in ReturnRecord ->
         r = Null \/ r = UndefinedRecord \/ r = [nodes |-> <<>>, edges |-> <<>>]
    [] OTHER -> r = <<>>

\* a text that only says what failed, a report with every check failed, an error record
FailureReport(name, r) ==
  CASE name \in ReturnText -> Len(r) > 0 /\ "error" \in DOMAIN r[Len(r)]
    [] name = "validateDialogue" ->
         /\ "status" \in DOMAIN r
         /\ r.status = "FAIL"
         /\ \A c \in DOMAIN r.checks : ~r.checks[c].passed
    [] name = "exportSynopsisAsJSON" -> DOMAIN r = {"error"}
    [] OTHER -> FALSE

\* C20 as stated: on an absent or unparsable store file every character, relationship,
\* scene and synopsis operation returns null, false, undefined or an empty collection,
\* does not throw and leaves the store file as it is
C20_NoOpFailureValue ==
  [][(StoreLost /\ op'.name \in StoreOperations)
     => /\ NoOpValue(op'.name, ret')
        /\ disk' = disk]_vars

\* C20, amended: on an absent or unparsable store file every character, relationship,
\* scene and synopsis operation that loads the store returns without throwing and
\* without creating or modifying the store file, and what it returns is null, false,
\* undefined or an empty collection, or, from an operation that renders text, reports
\* on a dialogue or exports the synopsis, a failure text, a FAIL report or an error
\* record
C20_FailureValueOrReport ==
  [][(StoreLost /\ op'.name \in StoreOperations)
     => /\ NoOpValue(op'.name, ret') \/ FailureReport(op'.name, ret')
        /\ op'.name \in ReturnRecord => ret' # Thrown
        /\ disk' = disk
        /\ lastSaves' = 0]_vars

\* a scene was to be updated in a store file that had been saved and then corrupted
C20_Witness ==
  /\ op.name = "updateScene"
  /\ ret = Null
  /\ disk.file = Garbage
  /\ disk.memDir

----------------------------------------------------------------------------
\* A store file that parses but has lost a part of the document.

\* the keys loadMemory's callers read without a check
RequiredKeys == {"characters", "relationships"}

\* memory.json is overwritten from outside with the document less one of its parts
MalformStoreFile ==
  /\ disk.file.st = "json"
  /\ \E k \in RequiredKeys :
       /\ k \in DOMAIN disk.file.doc
       /\ disk' = [disk EXCEPT !.file.doc = [x \in DOMAIN @ \ {k} |-> @[x]]]
       /\ op' = Call("edit memory.json", <<k>>)
  /\ UNCHANGED <<clock, nsaves, nsame, ret, lastSaves, proc>>

NextMalformed ==
  \/ MalformStoreFile
  \/ LoadMemory(Calm)
  \/ AddCharacter(Calm)
  \/ AddRelationship(Calm)
  \/ AddScene(Calm)

SpecMalformed == InitStore /\ [][NextMalformed]_vars

\* the store file parses as JSON but is not a whole document
StructurallyWrong == disk.file.st = "json" /\ ~(RequiredKeys \subseteq DOMAIN disk.file.doc)

\* C21: a store file that parses as JSON but is structurally wrong (lacks the
\* characters map or the relationships list) is no usable memory: loadMemory returns
\* null for it, and no operation throws to its caller because of it
C21_StructurallyWrongIsUnusable ==
  [][(StructurallyWrong /\ op'.name \in {"loadMemory", "addCharacter", "addRelationship",
                                         "addScene"})
     => /\ op'.name = "loadMemory" => ret' = Null
        /\ ret' # Thrown]_vars

\* a character was to be added to a store file without its characters map, and the
\* call threw
C21_Witness ==
  /\ op.name = "addCharacter"
  /\ ret = Thrown
  /\ disk.file.st = "json"
  /\ Lacks(disk.file.doc, "characters")

----------------------------------------------------------------------------
\* Two processes, each running addCharacter: loadMemory() is one step, the rest of the
\* call (the check, the mutation, saveMemory and the return) another.

\* the ids generateId has handed to the characters a process holds or the store keeps
HeldCharIds ==
  {proc[p].id : p \in {q \in Procs : proc[q].pc = "loaded"}}
    \cup {e.val.id : e \in Range(StoredCharacters)}

AddCharacterLoad(p) ==
  /\ proc[p].pc \in {"idle", "returned"}
  /\ \E name \in Names, id \in CharIds \ HeldCharIds :
       /\ proc' = [proc EXCEPT ![p] = [pc |-> "loaded", memory |-> loadMemory(disk),
                                       base |-> disk.file, name |-> name, id |-> id]]
       /\ op' = [name |-> "addCharacter", args |-> <<name, NoCharOptions>>, by |-> p]
  /\ UNCHANGED <<disk, clock, nsaves, nsame, ret, lastSaves>>

AddCharacterSave(p) ==
  /\ proc[p].pc = "loaded"
  /\ LET r == addCharacterLoaded(disk, proc[p].memory, proc[p].id, proc[p].name,
                                 NoCharOptions, clock + 1, "none")
     IN /\ r.saves > 0 => nsaves < MaxOps
        /\ disk' = r.disk
        /\ ret' = r.ret
        /\ lastSaves' = r.saves
        /\ nsaves' = nsaves + r.saves
        /\ clock' = clock + r.saves
        /\ proc' = [proc EXCEPT ![p] = [pc |-> "returned", base |-> proc[p].base,
                                        id |-> proc[p].id, value |-> r.ret]]
  /\ UNCHANGED <<nsame, op>>

\* removeCharacter by a third party, between the calls of the two
RemoveCharacterBetween ==
  /\ \A p \in Procs : proc[p].pc # "loaded"
  /\ RemoveCharacter(Calm)

NextTwoWriters ==
  \/ \E p \in Procs : AddCharacterLoad(p)
  \/ \E p \in Procs : AddCharacterSave(p)
  \/ RemoveCharacterBetween

SpecTwoWriters == InitStore /\ [][NextTwoWriters]_vars

\* p returned a character it added to the document q had loaded too, and q is
\* about to save
Overtaken(p, q) ==
  /\ p # q
  /\ proc[p].pc = "returned"
  /\ proc[p].value # Null
  /\ proc[q].pc = "loaded"
  /\ proc[q].base = proc[p].base

StoredCharIds == {e.val.id : e \in Range(StoredCharacters)}

\* C22: when two processes run load1, load2, save1, save2 on the same store, both
\* calls report success and the store ends with process 2's mutation only: the
\* character process 1 added is no longer in memory.json
C22_LaterSaveOverwrites ==
  [][\A p \in Procs, q \in Procs :
       (Overtaken(p, q) /\ proc'[q].pc = "returned")
         => /\ proc'[q].value # Null
            /\ proc'[q].id \in StoredCharIds'
            /\ proc[p].id \in StoredCharIds
            /\ proc[p].id \notin StoredCharIds']_vars

\* load1, load2, save1, save2 has happened: both calls returned their character, "A"
\* by process 1 and "B" by process 2, and the store holds "B" alone
C22_Witness ==
  /\ proc[1].pc = "returned" /\ proc[2].pc = "returned"
  /\ proc[1].base = proc[2].base
  /\ proc[1].value # Null /\ proc[2].value # Null
  /\ proc[1].value.name = "A" /\ proc[2].value.name = "B"
  /\ Len(StoredCharacters) = 1
  /\ StoredCharacters[1].val.name = "B"

----------------------------------------------------------------------------
\* The six operations that change a character.

LifeRun == Env(NoFaults, {1}, MaxLifeOps)

NextCharacterLife ==
  \/ AddCharacter(LifeRun)
  \/ UpdateCharacter(LifeRun)
  \/ RemoveCharacter(LifeRun)
  \/ AddAlias(LifeRun)
  \/ RemoveAlias(LifeRun)
  \/ AddEmotionPoint(LifeRun)

SpecCharacterLife == InitStore /\ [][NextCharacterLife]_vars

IdentityFields == {"id", "name", "created"}

\* C23: updateCharacter(name, updates) on a character that resolves leaves its id, name
\* and created as they were, whatever updates holds for them; every other field of
\* updates is in the character afterwards, the fields updates lacks are unchanged, and
\* updated is the time of the call
C23_UpdateKeepsIdentity ==
  [][(op'.name = "updateCharacter" /\ findCharacter(Stored, op'.args[1]) # 0)
     => LET ci == findCharacter(Stored, op'.args[1])
            before == StoredCharacters[ci].val
            after == StoredCharacters'[ci].val
            updates == op'.args[2]
        IN /\ Len(StoredCharacters') = Len(StoredCharacters)
           /\ \A k \in IdentityFields : after[k] = before[k]
           /\ \A k \in DOMAIN updates \ (IdentityFields \cup {"updated"}) :
                after[k] = updates[k]
           /\ \A k \in DOMAIN before \ (DOMAIN updates \cup {"updated"}) :
                after[k] = before[k]
           /\ after.updated = clock'
           /\ ret' = after]_vars

\* a character was updated with another id and creation time and kept its own
C23_Witness ==
  /\ op.name = "updateCharacter"
  /\ "id" \in DOMAIN op.args[2]
  /\ ret # Null
  /\ ret.id # op.args[2].id
  /\ ret.created # op.args[2].created
  /\ ret.notes = "n1"
  /\ ret.updated = clock

----------------------------------------------------------------------------
\* Removing a character of a document that refers to it.

NextRemoveCharacter ==
  \/ SaveDocument(Reliable)
  \/ RemoveCharacter(Reliable)

SpecRemoveCharacter == InitEmpty /\ [][NextRemoveCharacter]_vars

\* C24: removeCharacter(nameOrAlias) on a character that resolves returns true and
\* removes that character's entry of the map and nothing else: the other characters,
\* the relationships, the scenes with their characters lists, the themes, the world
\* and the synopsis are as before, whether or not they name the removed character
C24_RemoveCharacterNoCascade ==
  [][(op'.name = "removeCharacter" /\ Stored # Null
        /\ findCharacter(Stored, op'.args[1]) # 0)
     => /\ ret' = TRUE
        /\ Stored' # Null
        /\ Stored'.characters = Splice(Stored.characters, findCharacter(Stored, op'.args[1]))
        /\ \A k \in {"relationships", "scenes", "themes", "world", "synopsis"} :
             Stored'[k] = Stored[k]]_vars

\* "A" was removed by its alias, "B" is still stored, and a relationship and a scene
\* still name "A"
C24_Witness ==
  /\ op.name = "removeCharacter" /\ op.args[1] = "x" /\ ret = TRUE
  /\ Len(StoredCharacters) = 1
  /\ StoredCharacters[1].val.name = "B"
  /\ \E i \in DOMAIN StoredRelationships : StoredRelationships[i].from = "A"
  /\ \E i \in DOMAIN StoredScenes : Has(StoredScenes[i].characters, "A")

----------------------------------------------------------------------------
\* The emotion timeline of a character under the operations that write it.

\* updates of the type Partial<Character> that carry a timeline
TimelineUpdates ==
  {[timeline |-> <<>>],
   [timeline |-> <<[timestamp |-> 0, sceneId |-> Undefined, emotion |-> "e2",
                    trigger |-> "edit", intensity |-> 3]>>]}

UpdateCharacterTimeline(env) ==
  \E who \in Names, updates \in TimelineUpdates, f \in env.faults, dt \in env.dts :
    Run(Call("updateCharacter", <<who, updates>>),
        updateCharacter(disk, who, updates, clock + dt, f), dt, env)

NextTimeline ==
  \/ AddCharacter(LifeRun)
  \/ AddEmotionPoint(LifeRun)
  \/ UpdateCharacter(LifeRun)
  \/ UpdateCharacterTimeline(LifeRun)
  \/ RemoveCharacter(LifeRun)

SpecTimeline == InitStore /\ [][NextTimeline]_vars

IsPrefix(s, t) == Len(s) <= Len(t) /\ SubSeq(t, 1, Len(s)) = s

TimelineOf(memory, key) == memory.characters[charIndex(memory, key)].val.timeline

\* C25: while a character exists its emotion timeline only grows at the end: over
\* every public operation that leaves the character in the store, the timeline
\* before the operation is a prefix of the timeline after it
C25_TimelineAppendOnly ==
  [][\A key \in Names :
       (/\ Stored # Null /\ Stored' # Null
        /\ charIndex(Stored, key) # 0 /\ charIndex(Stored', key) # 0)
       => IsPrefix(TimelineOf(Stored, key), TimelineOf(Stored', key))]_vars

\* updateCharacter was given a timeline and stored it on a character: the point that
\* addEmotionPoint had appended is gone or replaced
C25_Witness ==
  /\ op.name = "updateCharacter" /\ "timeline" \in DOMAIN op.args[2]
  /\ ret # Null
  /\ Stored # Null
  /\ charIndex(Stored, op.args[1]) # 0
  /\ TimelineOf(Stored, op.args[1]) = op.args[2].timeline
  /\ \A i \in DOMAIN TimelineOf(Stored, op.args[1]) :
       TimelineOf(Stored, op.args[1])[i].emotion # "e1"

----------------------------------------------------------------------------
\* reorderCuts on scenes of up to MaxCuts cuts.

\* the orders of the indices 0..m-1
IndexOrders(m) == {p \in [1..m -> 0..(m - 1)] : \A i, j \in 1..m : p[i] = p[j] => i = j}

\* the arguments tried on a scene of m cuts: every permutation, every permutation
\* with its last index replaced by a repeat of its first, one with an index out of
\* range, one too short and one too long
OrdersTried(m) ==
  IndexOrders(m)
    \cup (IF m > 1 THEN {[p EXCEPT ![m] = p[1]] : p \in IndexOrders(m)} ELSE {})
    \cup {[i \in 1..m |-> i]}
    \cup {[i \in 1..(m + 1) |-> i - 1]}
    \cup (IF m > 0 THEN {[i \in 1..(m - 1) |-> i - 1]} ELSE {})

ReorderCutsTried(env) ==
  \E id \in NameableSceneIds, f \in env.faults, dt \in env.dts :
    \E newOrder \in OrdersTried(Len(CutsOf(id))) :
      Run(Call("reorderCuts", <<id, newOrder>>),
          reorderCuts(disk, id, newOrder, clock + dt, f), dt, env)

NextReorderCuts ==
  \/ AddScene(CutRun)
  \/ AddCut(CutRun)
  \/ ReorderCutsTried(CutRun)

SpecReorderCuts == InitStore /\ [][NextReorderCuts]_vars

SceneOf(memory, id) == memory.scenes[findSceneById(memory, id)]

\* newOrder names each of the indices 0..m-1 exactly once
IsPermutation(newOrder, m) ==
  /\ Len(newOrder) = m
  /\ \A j \in 0..(m - 1) : Cardinality({i \in DOMAIN newOrder : newOrder[i] = j}) = 1

\* C26: on a stored scene of m cuts, reorderCuts(sceneId, newOrder) returns false and
\* leaves the scene as it was when newOrder has another length than m or does not hold
\* every index 0..m-1 exactly once; otherwise the cut at new position i is the cut
\* that was at position newOrder[i], with order i
C26_ReorderCuts ==
  [][(op'.name = "reorderCuts" /\ Stored # Null
        /\ findSceneById(Stored, op'.args[1]) # 0)
     => LET before == SceneOf(Stored, op'.args[1])
            newOrder == op'.args[2]
        IN /\ Stored' # Null
           /\ findSceneById(Stored', op'.args[1]) # 0
           /\ IF IsPermutation(newOrder, Len(before.cuts))
              THEN LET after == SceneOf(Stored', op'.args[1]) IN
                   /\ Len(after.cuts) = Len(before.cuts)
                   /\ \A i \in DOMAIN after.cuts :
                        after.cuts[i] =
                          [before.cuts[newOrder[i] + 1] EXCEPT !.order = i - 1]
              ELSE /\ ret' = FALSE
                   /\ SceneOf(Stored', op'.args[1]) = before]_vars

\* three cuts were rotated: the cut that was last is first, and it differs from the
\* cut that follows it
C26_Witness ==
  /\ op.name = "reorderCuts" /\ op.args[2] = <<2, 0, 1>> /\ ret = TRUE
  /\ Len(CutsOf(op.args[1])) = 3
  /\ CutsOf(op.args[1])[1].content # CutsOf(op.args[1])[2].content
  /\ CutsOf(op.args[1])[2].content = CutsOf(op.args[1])[3].content

\* a newOrder that repeats an index was refused
C26_WitnessRefused ==
  /\ op.name = "reorderCuts" /\ op.args[2] = <<1, 0, 1>> /\ ret = FALSE
  /\ Len(CutsOf(op.args[1])) = 3

----------------------------------------------------------------------------
\* The keys of the characters map.

\* C27: in every state reached from initMemory by addCharacter, updateCharacter,
\* removeCharacter, addAlias, removeAlias and addEmotionPoint, each key of the
\* characters map is the name of the character stored under it
C27_KeyIsName ==
  \A i \in DOMAIN StoredCharacters : StoredCharacters[i].key = StoredCharacters[i].val.name

\* two characters are stored, and the one just updated was given the other's name
C27_Witness ==
  /\ op.name = "updateCharacter" /\ "name" \in DOMAIN op.args[2]
  /\ ret # Null
  /\ op.args[2].name # op.args[1]
  /\ Len(StoredCharacters) = 2
  /\ \E i \in DOMAIN StoredCharacters :
       /\ StoredCharacters[i].key = op.args[1]
       /\ StoredCharacters[i].val.tone = op.args[2].tone

----------------------------------------------------------------------------
\* Saving when the backup cannot be made or pruned.

RECURSIVE SavedTimes(_, _)
\* the disk after n calls of saveMemory at the times 1..n, none of which failed
SavedTimes(d, n) ==
  IF n = 0 THEN d
  ELSE saveMemory(SavedTimes(d, n - 1), NewMemory("p", "g", 0), n, "none").d

\* a store that was saved MAX_BACKUPS + 1 times: the backup directory is full, and
\* the next backup is one too many
InitFullBackups ==
  /\ disk = SavedTimes(EmptyDisk, MAX_BACKUPS + 1)
  /\ clock = MAX_BACKUPS + 1
  /\ nsaves = 0
  /\ nsame = 0
  /\ op = Call("none", <<>>)
  /\ ret = Null
  /\ lastSaves = 0
  /\ proc = Idle

NextBackupFailure ==
  \/ SaveDocument(Faulty)
  \/ CorruptStoreFile

SpecBackupFailure == InitFullBackups /\ [][NextBackupFailure]_vars

\* C28: a saveMemory call whose directory creation, temp write and rename do not fail
\* returns true and leaves memory.json holding the new document, whatever happens to
\* the backup: the prior file unparsable, the backup directory or file not written,
\* the unlink of an old backup failing
C28_BackupFailureNeverFailsSave ==
  [][(op'.name = "saveMemory" /\ ~SaveFails(disk, op'.fault)) =>
       /\ ret' = TRUE
       /\ disk'.file = JSONstringify(saveStamp(op'.args[1], clock'))]_vars

\* the unlink of the oldest backup failed: the save returned true, memory.json holds
\* the document saved and one backup too many is left
C28_Witness ==
  /\ op.name = "saveMemory" /\ op.fault = "unlink" /\ ret = TRUE
  /\ Cardinality(disk.backups) = MAX_BACKUPS + 1
  /\ disk.file = JSONstringify(saveStamp(op.args[1], clock))

\* the prior file was unparsable: the save returned true and made no backup
C28_WitnessUnparsable ==
  /\ op.name = "saveMemory" /\ op.fault = "none" /\ ret = TRUE
  /\ \A b \in disk.backups : b.ts # clock
  /\ disk.file = JSONstringify(saveStamp(op.args[1], clock))

\* the backup file could not be written
C28_WitnessWrite ==
  /\ op.name = "saveMemory" /\ op.fault = "writeBackup" /\ ret = TRUE
  /\ \A b \in disk.backups : b.ts # clock

----------------------------------------------------------------------------
\* validateDialogue on characters with and without a tone and keywords.

\* updates of a character's voice
VoiceUpdates ==
  {[tone |-> "plain"], [keywords |-> <<"w1">>], [speechLevel |-> "jondaetmal"]}

UpdateCharacterVoice(env) ==
  \E who \in Names, updates \in VoiceUpdates, f \in env.faults, dt \in env.dts :
    Run(Call("updateCharacter", <<who, updates>>),
        updateCharacter(disk, who, updates, clock + dt, f), dt, env)

\* lines with and without exclamation marks, sentence endings and the keyword
DialogueLines ==
  [exclamations : {0, 2}, formal : {0, 1}, informal : {0, 1}, casual : {0, 1},
   words : {{}, {"w1"}}]

ValidateDialogueLine(env) ==
  \E who \in Names, dialogue \in DialogueLines :
    Run(Call("validateDialogue", <<who, dialogue>>),
        validateDialogue(disk, who, dialogue), 1, env)

NextDialogue ==
  \/ AddCharacter(LifeRun)
  \/ UpdateCharacterVoice(LifeRun)
  \/ ValidateDialogueLine(LifeRun)

SpecDialogue == InitStore /\ [][NextDialogue]_vars

CheckNames == {"toneMatch", "speechLevelMatch", "keywordConsistency"}

\* the checks of a validation result that did not pass
FailedChecks(result) == {c \in CheckNames : ~result.checks[c].passed}

\* the three checks as the validation states them, made on the stored character
ToneFails(character, dialogue) == character.tone = "plain" /\ dialogue.exclamations > 1

SpeechLevelFails(character, dialogue) ==
  detectSpeechLevel(dialogue) \notin {character.speechLevel, "mixed"}

KeywordFails(character, dialogue) ==
  /\ character.keywords # <<>>
  /\ \A i \in DOMAIN character.keywords : character.keywords[i] \notin dialogue.words

\* C29: validateDialogue's status is PASS when none of the tone, speech level and
\* keyword checks fails, WARN when exactly one fails and FAIL when two or three fail;
\* for a name that resolves to no character it is FAIL with all three checks marked
\* not passed
C29_ValidationStatus ==
  op.name = "validateDialogue" =>
    IF findCharacter(Stored, op.args[1]) = 0
    THEN ret.status = "FAIL" /\ FailedChecks(ret) = CheckNames
    ELSE LET character == StoredCharacters[findCharacter(Stored, op.args[1])].val
             failed == {c \in CheckNames :
                          \/ c = "toneMatch" /\ ToneFails(character, op.args[2])
                          \/ c = "speechLevelMatch" /\ SpeechLevelFails(character, op.args[2])
                          \/ c = "keywordConsistency" /\ KeywordFails(character, op.args[2])}
         IN /\ FailedChecks(ret) = failed
            /\ ret.status = CASE Cardinality(failed) = 0 -> "PASS"
                              [] Cardinality(failed) = 1 -> "WARN"
                              [] OTHER -> "FAIL"

\* one check alone failed, the tone check, and the status is WARN
C29_Witness ==
  /\ op.name = "validateDialogue"
  /\ ret.status = "WARN"
  /\ FailedChecks(ret) = {"toneMatch"}

\* all three checks of a character that is stored failed
C29_WitnessAllFail ==
  /\ op.name = "validateDialogue"
  /\ findCharacter(Stored, op.args[1]) # 0
  /\ ret.status = "FAIL"
  /\ FailedChecks(ret) = CheckNames

\* two checks failed
C29_WitnessTwoFail ==
  /\ op.name = "validateDialogue"
  /\ ret.status = "FAIL"
  /\ Cardinality(FailedChecks(ret)) = 2

\* no check failed on a character with a tone and keywords
C29_WitnessPass ==
  /\ op.name = "validateDialogue"
  /\ ret.status = "PASS"
  /\ op.args[2].exclamations = 2
  /\ StoredCharacters[findCharacter(Stored, op.args[1])].val.keywords # <<>>

----------------------------------------------------------------------------
\* detectSpeechLevel on lines of up to MaxMatches matches per family.

\* a line by its counts: the sentences matching the formal, the informal and the
\* casual endings (a sentence may match more than one family)
SpeechTexts ==
  [exclamations : {0, 2}, formal : 0..MaxMatches, informal : 0..MaxMatches,
   casual : 0..MaxMatches, words : {{}}]

DetectSpeechLevel ==
  \E text \in SpeechTexts :
    Run(Call("detectSpeechLevel", <<text>>), NoSave(disk, detectSpeechLevel(text)), 1, Calm)

NextSpeech == DetectSpeechLevel

SpecSpeech == InitEmpty /\ [][NextSpeech]_vars

Buckets == {"jondaetmal", "banmal", "haeche"}

\* the matches of a line counted for a bucket
CountOf(text, bucket) ==
  CASE bucket = "jondaetmal" -> text.formal
    [] bucket = "banmal" -> text.informal
    [] bucket = "haeche" -> text.casual

\* the buckets whose count no other bucket exceeds
Leading(text) == {b \in Buckets : \A c \in Buckets : CountOf(text, c) <= CountOf(text, b)}

\* C30: detectSpeechLevel returns the bucket whose count is strictly the largest of
\* formal, informal and casual, and returns the mixed bucket when the largest count is
\* shared by two buckets or nothing matched
C30_MajorityOrMixed ==
  op.name = "detectSpeechLevel" =>
    IF Cardinality(Leading(op.args[1])) = 1
    THEN ret \in Leading(op.args[1])
    ELSE ret = "mixed"

\* one formal and one informal sentence, no casual one: the largest count is tied and
\* the informal bucket is returned
C30_Witness ==
  /\ op.name = "detectSpeechLevel"
  /\ op.args[1].formal = 1 /\ op.args[1].informal = 1 /\ op.args[1].casual = 0
  /\ ret = "banmal"

----------------------------------------------------------------------------
\* The synopsis checklist of stores with and without characters and relationships.

GetSynopsisChecklist(env) ==
  /\ Stored # Null
  /\ Run(Call("getSynopsisChecklist", <<>>), NoSave(disk, getSynopsisChecklist(Stored)),
         1, env)

NextChecklist ==
  \/ AddCharacter(Calm)
  \/ AddRelationship(Calm)
  \/ RemoveCharacter(Calm)
  \/ GetSynopsisChecklist(Calm)

SpecChecklist == InitStore /\ [][NextChecklist]_vars

ChecklistElements ==
  <<"protagonistAttitude", "coreRelationships", "emotionalTheme", "genreVsEmotion",
    "endingAftertaste">>

\* the stored relationships with the first stored character at either end
TouchingFirst ==
  IF StoredCharacters = <<>> THEN {}
  ELSE {i \in DOMAIN StoredRelationships :
          StoredCharacters[1].val.name \in
            {StoredRelationships[i].from, StoredRelationships[i].to}}

\* C31: the checklist has the five elements in their fixed order, and its
\* coreRelationships item is complete when two or more stored relationships touch the
\* first character, partial when exactly one does, and missing when none does or no
\* character is stored
C31_CoreRelationships ==
  op.name = "getSynopsisChecklist" =>
    /\ Len(ret) = Len(ChecklistElements)
    /\ \A i \in DOMAIN ret : ret[i].element = ChecklistElements[i]
    /\ ret[2].status = CASE Cardinality(TouchingFirst) >= 2 -> "complete"
                         [] Cardinality(TouchingFirst) = 1 -> "partial"
                         [] OTHER -> "missing"

\* the first character is at the receiving end of a relationship and at both ends of
\* another: complete
C31_Witness ==
  /\ op.name = "getSynopsisChecklist"
  /\ ret[2].status = "complete"
  /\ \E i \in TouchingFirst : StoredRelationships[i].from # StoredCharacters[1].val.name

\* relationships are stored and no character is: missing
C31_WitnessNoCharacter ==
  /\ op.name = "getSynopsisChecklist"
  /\ StoredCharacters = <<>> /\ StoredRelationships # <<>>
  /\ ret[2].status = "missing"

----------------------------------------------------------------------------
\* Removing one scene of up to three.

\* addScene as long as generateId has an id to give
AddSceneFreely(env) ==
  \E id \in FreshSceneIds(disk), title \in Titles, f \in env.faults, dt \in env.dts :
    Run(Call("addScene", <<title, NoOptions>>),
        addScene(disk, id, title, NoOptions, clock + dt, f), dt, env)

NextRemoveScene ==
  \/ AddSceneFreely(Calm)
  \/ AddEmotionTag(Calm)
  \/ ReorderScenes(Calm)
  \/ RemoveScene(Calm)

SpecRemoveScene == InitStore /\ [][NextRemoveScene]_vars

\* C32: removeScene(id) for an id that is stored removes the scene found under it,
\* keeps the other scenes in the sequence they had and numbers them 0..n-2; for an id
\* that matches no scene it returns false and leaves memory.json and the backups as
\* they were
C32_RemoveScene ==
  [][(op'.name = "removeScene" /\ Stored # Null) =>
       LET index == findSceneById(Stored, op'.args[1]) IN
       IF index = 0
       THEN ret' = FALSE /\ disk' = disk
       ELSE /\ ret' = TRUE
            /\ Len(StoredScenes') = Len(StoredScenes) - 1
            /\ \A i \in DOMAIN StoredScenes' :
                 StoredScenes'[i] =
                   [StoredScenes[IF i < index THEN i ELSE i + 1] EXCEPT !.order = i - 1]]_vars

\* the middle one of three scenes was removed: the two left were created two saves
\* apart and carry the orders 0 and 1
C32_Witness ==
  /\ op.name = "removeScene" /\ ret = TRUE
  /\ Len(StoredScenes) = 2
  /\ StoredScenes[2].created = StoredScenes[1].created + 2
  /\ StoredScenes[1].order = 0 /\ StoredScenes[2].order = 1

\* an id that is not stored was refused on a store that holds scenes
C32_WitnessUnknown ==
  /\ op.name = "removeScene" /\ op.args[1] = UnknownId /\ ret = FALSE
  /\ Len(StoredScenes) = 2

----------------------------------------------------------------------------
\* The scene queries on saved documents, with filters that are absent, empty and set.

SceneFilterValues ==
  [chapter : {Undefined, "", "c1"}, character : {Undefined, "", "A", "B"},
   emotionTag : {Undefined, "", "e1", "e2"}]

ListScenesFiltered(env) ==
  \E options \in SceneFilterValues :
    Run(Call("listScenes", <<options>>), listScenes(disk, options), 1, env)

GetScenesByEmotionTag(env) ==
  \E e \in EmotionTags \cup {""} :
    Run(Call("getScenesByEmotion", <<e>>), getScenesByEmotion(disk, e), 1, env)

NextSceneQueries ==
  \/ SaveDocument(Reliable)
  \/ ListScenesFiltered(Reliable)
  \/ GetScenesByEmotionTag(Reliable)

SpecSceneQueries == InitEmpty /\ [][NextSceneQueries]_vars

\* the scene passes the filters of options that count as supplied
Passes(scene, options, Supplied(_)) ==
  /\ Supplied(options.chapter) => Get(scene, "chapter") = options.chapter
  /\ Supplied(options.character) => Has(scene.characters, options.character)
  /\ Supplied(options.emotionTag) => Has(scene.emotionTags, options.emotionTag)

\* result holds each stored scene that is wanted once, no other scene, in ascending
\* order
ExactlyAscending(result, Wanted(_)) ==
  /\ \A i \in DOMAIN StoredScenes :
       Cardinality({k \in DOMAIN result : result[k].id = StoredScenes[i].id})
         = IF Wanted(StoredScenes[i]) THEN 1 ELSE 0
  /\ \A k \in DOMAIN result : \E i \in DOMAIN StoredScenes :
       result[k].id = StoredScenes[i].id /\ result[k].order = StoredScenes[i].order
  /\ \A k, l \in DOMAIN result : k < l => result[k].order <= result[l].order

ByEmotionExact ==
  op.name = "getScenesByEmotion" =>
    /\ ExactlyAscending(ret, LAMBDA scene : Has(scene.emotionTags, op.args[1]))
    /\ \A k \in DOMAIN ret : Has(StoredScenes, ret[k])

\* C33 as claimed: listScenes(options) returns the stored scenes that satisfy every
\* filter options carries, each once, in ascending order, and getScenesByEmotion(tag)
\* the scenes whose emotionTags contain tag, in ascending order
C33_EverySuppliedFilter ==
  /\ op.name = "listScenes" =>
       ExactlyAscending(ret, LAMBDA scene :
         Passes(scene, op.args[1], LAMBDA x : x # Undefined))
  /\ ByEmotionExact

\* C33 amended: listScenes(options) returns the stored scenes that satisfy every
\* filter options carries with a non-empty value, each once, in ascending order (an
\* empty string filters nothing); getScenesByEmotion(tag) returns the scenes whose
\* emotionTags contain tag, in ascending order
C33_EveryNonEmptyFilter ==
  /\ op.name = "listScenes" =>
       ExactlyAscending(ret, LAMBDA scene :
         Passes(scene, op.args[1], LAMBDA x : x # Undefined /\ x # ""))
  /\ ByEmotionExact

\* of two scenes stored with the later one first, the chapter and tag filters chose
\* that one alone
C33_Witness ==
  /\ op.name = "listScenes"
  /\ op.args[1].chapter = "c1" /\ op.args[1].emotionTag = "e2"
  /\ Len(StoredScenes) = 2
  /\ Len(ret) = 1 /\ ret[1].id = StoredScenes[1].id

\* both scenes were listed, in the order opposite to the store's
C33_WitnessSorted ==
  /\ op.name = "listScenes"
  /\ Len(ret) = 2 /\ Len(StoredScenes) = 2
  /\ ret[1].id = StoredScenes[2].id

----------------------------------------------------------------------------
\* Relationships between names that are no stored characters.

NextDangling ==
  \/ AddCharacter(Calm)
  \/ AddRelationship(Calm)
  \/ ValidateMemory(Calm)

SpecDangling == InitStore /\ [][NextDangling]_vars

\* the ends of the stored relationships that name no stored character
DanglingEnds ==
  IF Stored = Null THEN {}
  ELSE {e \in {[id |-> StoredRelationships[i].id, name |-> n] :
                 i \in DOMAIN StoredRelationships, n \in Names} :
          /\ e.name \notin charKeys(Stored)
          /\ \E i \in DOMAIN StoredRelationships :
               /\ StoredRelationships[i].id = e.id
               /\ e.name \in {StoredRelationships[i].from, StoredRelationships[i].to}}

\* C34: addRelationship(a, b, type), when no relationship is stored for the pair in
\* either direction, returns the new record and stores it, whether or not a and b are
\* stored characters and also when a = b; validateMemory is what reports, as an error,
\* each end that names no stored character
C34_DanglingAccepted ==
  /\ [][(op'.name = "addRelationship" /\ Stored # Null
           /\ relIndex(Stored, op'.args[1], op'.args[2]) = 0)
        => /\ ret' # Null
           /\ ret'.from = op'.args[1] /\ ret'.to = op'.args[2]
           /\ ret'.type = op'.args[3]
           /\ StoredRelationships' = Append(StoredRelationships, jsonRelationship(ret'))]_vars
  /\ [](op.name = "validateMemory" =>
          /\ \A e \in DanglingEnds :
               \E k \in DOMAIN ret.errors :
                 ret.errors[k] = [msg |-> "Relationship references non-existent character",
                                  id |-> e.id, name |-> e.name]
          /\ DanglingEnds # {} => ~ret.valid)

\* a relationship of a name with itself was added to a store without characters
C34_Witness ==
  /\ op.name = "addRelationship" /\ op.args[1] = op.args[2]
  /\ ret # Null
  /\ StoredCharacters = <<>>
  /\ \E i \in DOMAIN StoredRelationships : StoredRelationships[i].id = ret.id

\* validateMemory reported the end of a relationship whose other end is stored
C34_WitnessReported ==
  /\ op.name = "validateMemory"
  /\ ~ret.valid
  /\ \E i \in DOMAIN StoredRelationships :
       /\ StoredRelationships[i].from \in charKeys(Stored)
       /\ StoredRelationships[i].to \notin charKeys(Stored)

----------------------------------------------------------------------------
\* Validating a store that holds characters and nothing else.

\* initMemory(projectName, genre) with a project name that is not empty
InitMemory(env) ==
  \E projectName \in {"p", "q"}, genre \in {"g", ""}, f \in env.faults, dt \in env.dts :
    Run(Call("initMemory", <<projectName, genre>>),
        initMemory(disk, projectName, genre, clock + dt, f), dt, env)

NextAddOnly ==
  \/ InitMemory(Calm)
  \/ AddCharacter(Calm)
  \/ ValidateMemory(Calm)

SpecAddOnly == InitEmpty /\ [][NextAddOnly]_vars

\* C35: a store made by initMemory with a project name and changed by nothing but
\* addCharacter calls that succeeded validates without errors: validateMemory returns
\* valid = true
C35_AddOnlyValidates ==
  op.name = "validateMemory" => ret.valid

\* validateMemory found the key of an added character, its name, to differ from
\* its id
C35_Witness ==
  /\ op.name = "validateMemory"
  /\ ~ret.valid
  /\ Len(StoredCharacters) = 1
  /\ StoredRelationships = <<>> /\ StoredScenes = <<>>
  /\ ret.errors = <<[msg |-> "Character key does not match character.id",
                     key |-> StoredCharacters[1].val.name,
                     id |-> StoredCharacters[1].val.id]>>

----------------------------------------------------------------------------
\* The mutating operations on a file system whose temp write or rename may fail.

\* one call that saves, which may fail, among calls that do not save
FailRun == Env({"none", "writeTmp", "rename"}, {1}, MaxLostSaves)

\* a document of one character, a relationship and a scene of one cut
SampleDocument == CHOOSE D \in Documents : Len(D.characters) = 1 /\ Len(D.scenes) = 1

\* the store after initMemory("p", "g") at time 0 and saveMemory(SampleDocument) at
\* time 1; the saves of the run are counted from here
InitSampleStore ==
  /\ disk = saveMemory(initMemory(EmptyDisk, "p", "g", 0, "none").disk,
                       SampleDocument, 1, "none").d
  /\ clock = 1
  /\ nsaves = 0
  /\ nsame = 0
  /\ op = Call("saveMemory", <<SampleDocument>>)
  /\ ret = TRUE
  /\ lastSaves = 1
  /\ proc = Idle

NextFailingSaves ==
  \/ AddCharacter(FailRun) \/ UpdateCharacter(FailRun) \/ RemoveCharacter(FailRun)
  \/ AddAlias(FailRun) \/ AddEmotionPoint(FailRun)
  \/ AddRelationship(FailRun) \/ RemoveRelationship(FailRun)
  \/ AddScene(FailRun) \/ RemoveScene(FailRun) \/ ReorderScenes(FailRun)
  \/ AddCut(FailRun) \/ RemoveCut(FailRun) \/ ReorderCuts(FailRun)
  \/ SaveSynopsisState(FailRun)

SpecFailingSaves == InitSampleStore /\ [][NextFailingSaves]_vars

Mutators ==
  {"addCharacter", "updateCharacter", "removeCharacter", "addAlias", "addEmotionPoint",
   "addRelationship", "removeRelationship", "addScene", "removeScene", "addCut",
   "removeCut", "reorderScenes", "reorderCuts"}

\* what the operation returns when it fails
FailureValue(name) == IF name \in ReturnBoolean THEN FALSE ELSE Null

\* the operation called saveMemory and memory.json is as it was: the save, which
\* stamps the document with the time of the call, returned false
SaveFailed == lastSaves' > 0 /\ disk'.file = disk.file

\* C36: a mutating operation whose saveMemory call returns false reports its failure
\* value; it returns its success value only when the new state was persisted
C36_SuccessOnlyIfPersisted ==
  [][(op'.name \in Mutators /\ SaveFailed) => ret' = FailureValue(op'.name)]_vars

\* addCharacter returned the character and the store does not hold it
C36_Witness ==
  /\ op.name = "addCharacter" /\ lastSaves = 1
  /\ ret # Null
  /\ Stored # Null
  /\ charIndex(Stored, op.args[1]) = 0

\* saveSynopsisState, which returns what saveMemory returned, reported the failure
C36_WitnessSynopsis ==
  /\ op.name = "saveSynopsisState" /\ lastSaves = 1
  /\ ret = FALSE

----------------------------------------------------------------------------
\* updateScene with updates that carry an order.

\* updates of the type Partial<Scene>
OrderUpdates ==
  {[order |-> 5], [title |-> "t2", order |-> 0],
   [id |-> "s3", created |-> 99, notes |-> "n1"]}

UpdateSceneOrder(env) ==
  \E id \in NameableSceneIds, updates \in OrderUpdates, f \in env.faults, dt \in env.dts :
    Run(Call("updateScene", <<id, updates>>),
        updateScene(disk, id, updates, clock + dt, f), dt, env)

NextUpdateScene ==
  \/ AddScene(Calm)
  \/ AddCut(Calm)
  \/ UpdateSceneOrder(Calm)
  \/ UpdateCut(Calm)

SpecUpdateScene == InitStore /\ [][NextUpdateScene]_vars

\* C37: updateScene(sceneId, updates) on a stored scene leaves the scene's id and
\* created as they were, whatever updates carries, and leaves the orders of the
\* stored scenes exactly 0..n-1
C37_UpdateSceneKeepsOrder ==
  [][(op'.name = "updateScene" /\ findSceneById(Stored, op'.args[1]) # 0)
     => LET si == findSceneById(Stored, op'.args[1]) IN
        /\ Len(StoredScenes') = Len(StoredScenes)
        /\ StoredScenes'[si].id = StoredScenes[si].id
        /\ StoredScenes'[si].created = StoredScenes[si].created
        /\ {StoredScenes'[i].order : i \in DOMAIN StoredScenes'}
             = 0..(Len(StoredScenes') - 1)]_vars

\* the first of two scenes was given the order 5 and keeps its id and creation time
C37_Witness ==
  /\ op.name = "updateScene" /\ "order" \in DOMAIN op.args[2]
  /\ ret # Null
  /\ Len(StoredScenes) = 2
  /\ StoredScenes[1].id = op.args[1]
  /\ StoredScenes[1].order = 5
  /\ StoredScenes[2].order = 1

\* updateCut was given an order and the cut keeps its own
C37_WitnessCut ==
  /\ op.name = "updateCut" /\ "order" \in DOMAIN op.args[3] /\ ret = TRUE
  /\ op.args[2] = 0
  /\ CutsOf(op.args[1])[1].order = 0
  /\ CutsOf(op.args[1])[1].emotionTag = "e2"

----------------------------------------------------------------------------
\* Aliases given to more than one character.

\* addAlias with an alias that may also be the name of a character
AddAliasOrName(env) ==
  \E who \in Names, alias \in Aliases \cup Names, f \in env.faults, dt \in env.dts :
    Run(Call("addAlias", <<who, alias>>), addAlias(disk, who, alias, clock + dt, f), dt, env)

NextAliases ==
  \/ AddCharacter(Calm)
  \/ AddAliasOrName(Calm)
  \/ ResolveCharacter(Calm)

SpecAliases == InitStore /\ [][NextAliases]_vars

\* the stored characters that x names: by their name or by one of their aliases
Matching(x) ==
  {i \in DOMAIN StoredCharacters :
     StoredCharacters[i].val.name = x \/ Has(StoredCharacters[i].val.aliases, x)}

\* C38: in every state reached through addCharacter and addAlias no alias belongs to
\* two characters and no alias of a character is the name of another, so a name or
\* alias matches at most one stored character
C38_UnambiguousResolution ==
  /\ \A i, j \in DOMAIN StoredCharacters :
       i # j => /\ \A k \in DOMAIN StoredCharacters[i].val.aliases :
                     ~Has(StoredCharacters[j].val.aliases, StoredCharacters[i].val.aliases[k])
                /\ ~Has(StoredCharacters[i].val.aliases, StoredCharacters[j].val.name)
  /\ \A x \in Names \cup Aliases : Cardinality(Matching(x)) <= 1

\* addAlias gave the second character an alias the first one has
C38_Witness ==
  /\ op.name = "addAlias" /\ op.args[2] \in Aliases /\ ret = TRUE /\ lastSaves = 1
  /\ Len(StoredCharacters) = 2
  /\ \A i \in DOMAIN StoredCharacters : Has(StoredCharacters[i].val.aliases, op.args[2])

\* addAlias gave a character the name of the other as an alias
C38_WitnessName ==
  /\ op.name = "addAlias" /\ op.args[2] \in Names /\ ret = TRUE /\ lastSaves = 1
  /\ Len(StoredCharacters) = 2
  /\ op.args[1] # op.args[2]
  /\ Cardinality(Matching(op.args[2])) = 2

----------------------------------------------------------------------------
\* saveMemory by two processes at once.  Both write memory.json.tmp; a process that
\* has the file open keeps writing to it after another process has renamed it
\* (POSIX: the descriptor follows the file, not the path)

\* where the file a descriptor was opened on is after renameSync(tmpPath, memPath):
\* the temp file is now memory.json, the memory.json it replaced is unlinked
renamedUnder(fd) == IF fd = "tmp" THEN "file" ELSE "gone"

\* a write through a descriptor changes the file wherever it is now
writeThrough(d, fd, text) ==
  IF fd = "tmp" THEN [d EXCEPT !.tmp = text]
  ELSE IF fd = "file" THEN [d EXCEPT !.file = text]
  ELSE d

\* the texts the file can hold after writeFileSync has written json: two writers of
\* one file each write from offset 0, and a truncation between two writes of one
\* text leaves a hole, so the text of a file written by two is json or a mixture
writeOutcomes(json, shared) == IF shared THEN {json, Garbage} ELSE {json}

Writers(pr) == {q \in Procs : pr[q].pc = "write"}

Stamped(pr) == {q \in Procs : pr[q].pc \in {"write", "rename"}}

\* remember, for every call that has stamped its document, whether memory.json has
\* held that document
Noted(pr, file) ==
  [q \in Procs |->
     IF q \in Stamped(pr)
     THEN [pr[q] EXCEPT !.installed = @ \/ file = JSONstringify(pr[q].memory)]
     ELSE pr[q]]

\* the call, by a process that fails only through what the other process does
SharedCall(p) ==
  /\ proc[p].pc = "idle"
  /\ nsaves < MaxDocSaves
  /\ \E memory \in SaveInputs :
       /\ proc' = [proc EXCEPT ![p] = [pc |-> "backup", memory |-> memory]]
       /\ op' = Call("saveMemory", <<memory>>)
  /\ nsaves' = nsaves + 1
  /\ UNCHANGED <<disk, clock, nsame, ret, lastSaves>>

\* the directory is made, and the memory.json found is read, parsed and backed up
SharedBackup(p) ==
  /\ proc[p].pc = "backup"
  /\ disk' = saveBackupExisting(saveEnsureDir(disk, "none").d, clock, "none")
  /\ Goto(p, "open")
  /\ UNCHANGED <<clock, nsaves, nsame, op, ret, lastSaves>>

\* memory.project.updated = now(); writeFileSync(tmpPath, ...) opens and truncates
\* the temp file, the one another writer may have open
SharedOpen(p) ==
  /\ proc[p].pc = "open"
  /\ disk' = saveOpen(disk)
  /\ LET others == {q \in Writers(proc) : proc[q].fd = "tmp"}
         memory == saveStamp(proc[p].memory, clock)
     IN proc' = Noted([q \in Procs |->
                         IF q = p
                         THEN [pc |-> "write", memory |-> memory, fd |-> "tmp",
                               shared |-> others # {}, installed |-> FALSE]
                         ELSE IF q \in others THEN [proc[q] EXCEPT !.shared = TRUE]
                         ELSE proc[q]], disk.file)
  /\ UNCHANGED <<clock, nsaves, nsame, op, ret, lastSaves>>

\* writeFileSync writes the text and closes the file
SharedWrite(p) ==
  /\ proc[p].pc = "write"
  /\ \E text \in writeOutcomes(JSONstringify(proc[p].memory), proc[p].shared) :
       disk' = writeThrough(disk, proc[p].fd, text)
  /\ proc' = Noted([proc EXCEPT ![p].pc = "rename"], disk'.file)
  /\ UNCHANGED <<clock, nsaves, nsame, op, ret, lastSaves>>

\* renameSync(tmpPath, memPath); return true, or false from the catch block when the
\* other process has renamed the temp file away
SharedRename(p) ==
  /\ proc[p].pc = "rename"
  /\ disk' = saveRename(disk, "none").d
  /\ ret' = saveRename(disk, "none").ok
  /\ proc' = IF saveRename(disk, "none").ok
             THEN Noted([q \in Procs |->
                           IF q = p THEN [pc |-> "idle"]
                           ELSE IF q \in Writers(proc)
                                THEN [proc[q] EXCEPT !.fd = renamedUnder(@)]
                           ELSE proc[q]], disk.tmp)
             ELSE [proc EXCEPT ![p] = [pc |-> "idle"]]
  /\ UNCHANGED <<clock, nsaves, nsame, op, lastSaves>>

NextConcurrentSave ==
  \/ \E p \in Procs : SharedCall(p)
  \/ \E p \in Procs : SharedBackup(p)
  \/ \E p \in Procs : SharedOpen(p)
  \/ \E p \in Procs : SharedWrite(p)
  \/ \E p \in Procs : SharedRename(p)
  \/ Tick

SpecConcurrentSave == InitEmpty /\ [][NextConcurrentSave]_vars

SavedTexts == {JSONstringify(saveStamp(memory, t)) : memory \in SaveInputs, t \in 0..MaxTicks}

\* the call of p returns true from its renameSync
ReturnsTrue(p) == proc[p].pc = "rename" /\ proc'[p].pc = "idle" /\ ret' = TRUE

\* C39: while two processes run saveMemory at once, memory.json is absent or holds one
\* complete document that was passed to some save, never a partial or mixed text, and
\* a save that returns true has had its document installed as memory.json
C39_ConcurrentSaves ==
  /\ [](disk.file.st = "absent" \/ disk.file \in SavedTexts)
  /\ [][\A p \in Procs :
          ReturnsTrue(p) =>
            proc[p].installed \/ disk'.file = JSONstringify(proc[p].memory)]_vars

\* one save has returned true by renaming the temp file that the other had just
\* truncated: memory.json is a partial text, still being written through the other's
\* descriptor
C39_Witness ==
  /\ disk.file.st = "partial"
  /\ \E p \in Procs : proc[p].pc = "write" /\ proc[p].fd = "file"
  /\ ret = TRUE

\* memory.json holds a mixture of the two documents
C39_WitnessMixed ==
  /\ disk.file.st = "corrupt"
  /\ \A p \in Procs : proc[p].pc = "idle"
====
